---- MODULE Spec2Model ----
(***************************************************************************)
(* A model of build_support/repo_set.py (mesa_ci): the repository set      *)
(* (clone / fetch), the branch sets with their trigger detection, and the  *)
(* fleet poller RepoStatus.                                                *)
(*                                                                         *)
(* Commits are numbered 1, 2, ...; the value 0 of a ref means that the ref *)
(* does not exist (in the clone, or upstream).  A push creates a new       *)
(* commit, so refs only grow.                                              *)
(***************************************************************************)
EXTENDS Integers, Sequences, FiniteSets, TLC

(***************************************************************************)
(* Bounds of the model.                                                    *)
(***************************************************************************)
\* the number of commits that the branches of the remotes hold together
MaxCommits == 4
\* a remote fails its first 0..MaxFetchFails fetch attempts
MaxFetchFails == 4
\* a clone url fails its first 0..MaxCloneFails clone attempts
MaxCloneFails == 11

(***************************************************************************)
(* The build specification document (build_specification.xml).             *)
(***************************************************************************)
\* the children of <repos>, in document order; the document may grow while
\* the program runs: its first ntags children are declared
Tags == <<"A", "B">>

Projects == {Tags[i] : i \in DOMAIN Tags}

\* the <remote name=.../> children of a repos tag
DeclaredRemotes(p) == IF p = "B" THEN <<"fork">> ELSE <<>>

\* "branch" attribute of a repos tag, "origin/master" when it has none
RepoBranch(p) == "origin/master"

RemoteNames == {"origin", "fork"}

Refs == {"origin/master", "fork/stable"}

\* the remote whose namespace holds a ref
RemoteOfRef(ref) == IF ref = "origin/master" THEN "origin" ELSE "fork"

\* the refs that exist in a project's upstream repositories
UpstreamRefs == {<<"A", "origin/master">>, <<"B", "origin/master">>,
                 <<"B", "fork/stable">>}

NoRefs == [r \in Refs |-> 0]

VARIABLES
  ntags,      \* the number of children of <repos> in the build specification
  buildLab,   \* is_build_lab(): the build master answers a ping
  useCache,   \* RepoSet._use_cache
  fs,         \* repos_root on disk: project -> absent | valid | invalid | dnu
  upstream,   \* project -> ref -> newest commit of the ref at its remote
  local,      \* project -> ref -> commit of the ref in the local clone
  repos,      \* RepoSet._repos: the projects that have a repository handle
  last,       \* the last call: its name, its input and what it returned or raised
  pc,         \* RepoStatus: the position of the running constructor or poll()
  idx,        \* RepoStatus.poll: index of the branch set under evaluation
  order,      \* iteration order of the _project_branches dictionaries
  branches,   \* RepoStatus._branches: sequence of [name, pb]
  retDict,    \* RepoStatus.poll: ret_dict
  prevRet,    \* the mapping the previous poll() returned
  moved,      \* branch set name -> a pinned ref moved since its update_commits()
  pending,    \* branch set name -> the diverged projects its last trigger left unreported
  sig,        \* the branch sets whose needs_build() signalled in the running poll()
  history,    \* project -> the commit graph of its clone, for branch_missing_revisions
  revisions,  \* RevisionSpecification._revisions, in the dictionary's iteration order
  invoke,     \* a ProjectInvoke: its project, options and revision_spec
  share,      \* the results share: its directories and its files with their text
  cwd,        \* os.getcwd() of the process that writes status records
  jobs        \* the builds that keep status records: ProjectInvoke and position

vars == <<ntags, buildLab, useCache, fs, upstream, local, repos, last, pc, idx, order,
          branches, retDict, prevRet, moved, pending, sig, history, revisions, invoke,
          share, cwd, jobs>>

\* the variables of the objects that no RepoSet or RepoStatus step touches
libVars == <<history, revisions, invoke, share, cwd, jobs>>

\* the variables of the status records
statusVars == <<share, cwd, jobs>>

\* no status record in play
NoStatus ==
  /\ share = <<>>
  /\ cwd = <<>>
  /\ jobs = <<>>

\* no commit graph, no RevisionSpecification and no ProjectInvoke in play
NoLib ==
  /\ history = <<>>
  /\ revisions = <<>>
  /\ invoke = <<>>
  /\ NoStatus

rsVars == <<ntags, buildLab, useCache, fs, upstream, local, repos>>

\* the projects that <repos> declares
Declared == {Tags[i] : i \in 1..ntags}

pollVars == <<pc, idx, order, branches, retDict, prevRet, moved, pending, sig>>

FsStates == {"absent", "valid", "invalid", "dnu"}

(***************************************************************************)
(* RepoSet.__init__                                                        *)
(***************************************************************************)
\* git.Repo(dir) raises InvalidGitRepositoryError
InvalidRepo(state) == state \in {"invalid", "dnu"}

\* the loop over the repos tags: a directory that is a repository gets a
\* handle, one that is not (a do_not_use directory too) is removed
RepoSetInitRepos(disk) == {p \in Declared : disk[p] = "valid"}

RepoSetInitFs(disk) ==
  [p \in Projects |-> IF p \in Declared /\ InvalidRepo(disk[p])
                      THEN "absent" ELSE disk[p]]

\* self._use_cache = use_cache and self._build_lab
UseCacheOf(useCacheArg, lab) == useCacheArg /\ lab

\* repo.remotes: origin alone for a clone of the build master's cache (its
\* refspec +refs/*:refs/remotes/* brings every ref), origin and the declared
\* remotes otherwise
RemotesOf(p, uc) == IF uc THEN <<"origin">> ELSE <<"origin">> \o DeclaredRemotes(p)

\* the refs a fetch of one remote updates
RefsVia(remote, uc) == IF uc THEN Refs ELSE {r \in Refs : RemoteOfRef(r) = remote}

(***************************************************************************)
(* RepoSet.fetch                                                           *)
(***************************************************************************)
\* for _ in range(1, 4)
FetchRangeStart == 1

FetchRangeStop == 4

\* time.sleep(1) in the finally clause of an attempt
FetchSleep == 1

\* what a failing remote.fetch() raises: a git error, an assertion of the git
\* library, the alarm's TimeoutException, anything else
FailKinds == <<"GitCommandError", "AssertionError", "TimeoutException", "Exception">>

\* the except clauses of an attempt
CaughtNoTimeout(kind) == kind \in {"GitCommandError", "AssertionError", "Exception"}

Caught(kind) == kind \in {"GitCommandError", "AssertionError", "TimeoutException", "Exception"}

\* what remote.fetch() does on its n-th call: an outcome o fails the first
\* o.fails calls, the first of them with FailKinds[o.first] and each next one
\* with the next kind
AttemptFails(o, n) == n <= o.fails

AttemptKind(o, n) == FailKinds[((o.first + n - 2) % Len(FailKinds)) + 1]

\* the retry loop of one remote, from value i of the range on, after `made`
\* attempts
RECURSIVE FetchLoop(_, _, _)
FetchLoop(o, i, made) ==
  IF i >= FetchRangeStop
  THEN [attempts |-> made, success |-> FALSE, raised |-> "none",
        slept |-> made * FetchSleep]
  ELSE IF ~AttemptFails(o, made + 1)
       THEN [attempts |-> made + 1, success |-> TRUE, raised |-> "none",
             slept |-> (made + 1) * FetchSleep]
       ELSE IF Caught(AttemptKind(o, made + 1))
            THEN FetchLoop(o, i + 1, made + 1)
            ELSE [attempts |-> made + 1, success |-> FALSE,
                  raised |-> AttemptKind(o, made + 1),
                  slept |-> (made + 1) * FetchSleep]

\* the loop over repo.remotes of one repository: acc is the result so far
RECURSIVE FetchRemotes(_, _, _, _, _, _)
FetchRemotes(p, rems, k, out, uc, acc) ==
  IF k > Len(rems) THEN acc
  ELSE LET r == rems[k]
           res == FetchLoop(out[<<p, r>>], FetchRangeStart, 0)
           loc == IF res.success
                  THEN [acc.local EXCEPT ![p] =
                          [ref \in Refs |-> IF ref \in RefsVia(r, uc)
                                            THEN upstream[p][ref] ELSE @[ref]]]
                  ELSE acc.local
           acc2 == [acc EXCEPT !.local = loc,
                               !.attempts[<<p, r>>] = res.attempts,
                               !.slept[<<p, r>>] = res.slept,
                               !.visited = @ \cup {<<p, r>>},
                               !.failed = IF res.success THEN @ ELSE @ \cup {<<p, r>>},
                               !.raised = res.raised]
       IN IF res.raised # "none" THEN acc2
          ELSE FetchRemotes(p, rems, k + 1, out, uc, acc2)

RECURSIVE FetchTagsSkip(_, _, _, _, _)
FetchTagsSkip(t, known, out, uc, acc) ==
  IF t > ntags THEN acc
  ELSE IF Tags[t] \notin known
       THEN FetchTagsSkip(t + 1, known, out, uc, acc)
       ELSE LET acc2 == FetchRemotes(Tags[t], RemotesOf(Tags[t], uc), 1, out, uc, acc)
            IN IF acc2.raised # "none" THEN acc2
               ELSE FetchTagsSkip(t + 1, known, out, uc, acc2)

\* the loop over the repos tags, from tag t on
RECURSIVE FetchTags(_, _, _, _, _)
FetchTags(t, known, out, uc, acc) ==
  IF t > ntags THEN acc
  ELSE IF Tags[t] \notin known
       THEN [acc EXCEPT !.raised = "RepoNotCloned", !.repo = Tags[t]]
       ELSE LET acc2 == FetchRemotes(Tags[t], RemotesOf(Tags[t], uc), 1, out, uc, acc)
            IN IF acc2.raised # "none" THEN acc2
               ELSE FetchTags(t + 1, known, out, uc, acc2)

RemoteKeys == Projects \X RemoteNames

\* a fetch() that looks for an uncloned project before it fetches anything
FetchChecked(known, loc, out, uc) ==
  LET start == [raised |-> "none", repo |-> "none", local |-> loc,
                attempts |-> [k \in RemoteKeys |-> 0],
                slept |-> [k \in RemoteKeys |-> 0],
                visited |-> {}, failed |-> {}]
      missing == {t \in 1..ntags : Tags[t] \notin known}
  IN IF missing # {}
     THEN [start EXCEPT !.raised = "RepoNotCloned",
                        !.repo = Tags[CHOOSE t \in missing : \A u \in missing : t <= u]]
     ELSE FetchTags(1, known, out, uc, start)

\* RepoSet.fetch(): out gives every remote's outcome
Fetch(known, loc, out, uc) ==
  FetchTags(1, known, out, uc,
            [raised |-> "none", repo |-> "none", local |-> loc,
             attempts |-> [k \in RemoteKeys |-> 0],
             slept |-> [k \in RemoteKeys |-> 0],
             visited |-> {}, failed |-> {}])

(***************************************************************************)
(* RepoSet.clone                                                           *)
(***************************************************************************)
\* attempts = 1
CloneAttemptsDefault == 1

\* attempts = 10
CloneAttemptsLab == 10

\* time.sleep(10) before every attempt but the first
CloneSleep == 10

CloneAttemptsLabOnly(lab, uc) == IF lab THEN CloneAttemptsLab ELSE CloneAttemptsDefault

\* if self._build_lab and self._use_cache: attempts = 10
CloneAttempts(lab, uc) ==
  IF lab /\ uc THEN CloneAttemptsLab ELSE CloneAttemptsDefault

\* for attempt in range(0, attempts): a url fails its first `fails` clones
RECURSIVE CloneLoop(_, _, _)
CloneLoop(fails, attempt, attempts) ==
  IF attempt >= attempts
  THEN [made |-> attempt, success |-> FALSE]
  ELSE IF attempt + 1 > fails
       THEN [made |-> attempt + 1, success |-> TRUE]
       ELSE CloneLoop(fails, attempt + 1, attempts)

\* a fresh clone holds the branches of origin and nothing of the other remotes
ClonedRefs(p) ==
  [ref \in Refs |-> IF RemoteOfRef(ref) = "origin" THEN upstream[p][ref] ELSE 0]

\* the body of the loop over the repos tags for project p
CloneTag(p, cin, lab, uc, acc) ==
  LET d0 == acc.fs[p]
      \* an existing directory without do_not_use that is no repository is removed
      d1 == IF d0 = "invalid" THEN "absent" ELSE d0
      res == IF d1 = "absent"
             THEN CloneLoop(cin[p], 0, CloneAttempts(lab, uc))
             ELSE [made |-> 0, success |-> FALSE]
      d2 == IF d1 # "absent" THEN d1
            ELSE IF res.success THEN "valid"
            ELSE IF ~lab THEN "dnu" ELSE "absent"
      acc2 == [acc EXCEPT
                 !.fs[p] = d2,
                 !.attempts[p] = res.made,
                 !.slept[p] = IF res.made > 1 THEN (res.made - 1) * CloneSleep ELSE 0,
                 !.local[p] = IF d1 = "absent"
                              THEN (IF res.success THEN ClonedRefs(p) ELSE NoRefs)
                              ELSE @,
                 !.marked = IF d1 = "absent" /\ d2 = "dnu" THEN @ \cup {p} ELSE @]
  IN IF d2 = "dnu" THEN acc2
     \* git.Repo(repo_dir) of a missing directory raises NoSuchPathError,
     \* which the except clause does not name
     ELSE IF d2 = "absent"
          THEN [acc2 EXCEPT !.raised = "NoSuchPathError", !.repo = p]
          ELSE [acc2 EXCEPT !.repos = @ \cup {p}]

RECURSIVE CloneTags(_, _, _, _, _)
CloneTags(t, cin, lab, uc, acc) ==
  IF t > ntags THEN acc
  ELSE LET acc2 == CloneTag(Tags[t], cin, lab, uc, acc)
       IN IF acc2.raised # "none" THEN acc2
          ELSE CloneTags(t + 1, cin, lab, uc, acc2)

\* RepoSet.clone(): cin gives, per project, how many clone attempts fail
Clone(known, disk, loc, cin, lab, uc) ==
  CloneTags(1, cin, lab, uc,
            [raised |-> "none", repo |-> "none", fs |-> disk, local |-> loc,
             repos |-> known, attempts |-> [p \in Projects |-> 0],
             slept |-> [p \in Projects |-> 0], marked |-> {}])

(***************************************************************************)
(* The repository set on its own: a RepoSet object whose clone() and       *)
(* fetch() are called in any order, and replaced by a new RepoSet (a later *)
(* run) on the same disk.                                                  *)
(***************************************************************************)
RealRemotes == {k \in RemoteKeys : k[1] = "A" => k[2] = "origin"}

FetchOutcomes == [fails : 0..MaxFetchFails, first : DOMAIN FailKinds]

\* every remote fails some number of attempts; the kinds of one call start
\* at the same kind
FetchInputs ==
  {[k \in RemoteKeys |-> [fails |-> IF k \in RealRemotes THEN f[k] ELSE 0,
                          first |-> kd]] :
     f \in [RealRemotes -> 0..MaxFetchFails], kd \in DOMAIN FailKinds}

CloneInputs == [Projects -> 0..MaxCloneFails]

\* the inputs of a call that follows another call on the same object: a
\* remote or a url works at once or fails every attempt
FetchInputsQuick ==
  {[k \in RemoteKeys |-> [fails |-> IF k \in down THEN MaxFetchFails ELSE 0,
                          first |-> 1]] : down \in SUBSET RealRemotes}

CloneInputsQuick == [Projects -> {0, MaxCloneFails}]

\* every upstream ref at its second commit
UpstreamFixed ==
  [p \in Projects |-> [ref \in Refs |-> IF <<p, ref>> \in UpstreamRefs
                                        THEN 2 ELSE 0]]

\* a clone made when origin's branches were at commit 1
OldClone(p) == [ref \in Refs |-> IF RemoteOfRef(ref) = "origin" THEN 1 ELSE 0]

NoPoller ==
  /\ pc = "none"
  /\ idx = 0
  /\ order = <<>>
  /\ branches = <<>>
  /\ retDict = <<>>
  /\ prevRet = <<>>
  /\ moved = <<>>
  /\ pending = <<>>
  /\ sig = {}

RsInit ==
  /\ ntags = Len(Tags)
  /\ buildLab \in BOOLEAN
  /\ upstream = UpstreamFixed
  /\ \E disk \in [Projects -> FsStates], arg \in BOOLEAN :
       /\ fs = RepoSetInitFs(disk)
       /\ repos = RepoSetInitRepos(disk)
       /\ useCache = UseCacheOf(arg, buildLab)
       /\ local = [p \in Projects |-> IF disk[p] = "valid" THEN OldClone(p) ELSE NoRefs]
  /\ last = [op |-> "init"]
  /\ NoPoller
  /\ NoLib

\* a later run: RepoSet(use_cache=arg) on the disk as it is now
RsNew ==
  \E arg \in BOOLEAN :
    /\ fs' = RepoSetInitFs(fs)
    /\ repos' = RepoSetInitRepos(fs)
    /\ useCache' = UseCacheOf(arg, buildLab)
    /\ local' = [p \in Projects |-> IF fs[p] = "valid" THEN local[p] ELSE NoRefs]
    /\ last' = [op |-> "init"]
    /\ UNCHANGED <<ntags, buildLab, libVars, upstream>>
    /\ UNCHANGED pollVars

RsClone ==
  \E cin \in (IF last.op = "init" THEN CloneInputs ELSE CloneInputsQuick) :
    LET res == Clone(repos, fs, local, cin, buildLab, useCache)
    IN /\ fs' = res.fs
       /\ local' = res.local
       /\ repos' = res.repos
       /\ last' = [op |-> "clone", in |-> cin, raised |-> res.raised,
                   repo |-> res.repo, attempts |-> res.attempts,
                   slept |-> res.slept, marked |-> res.marked,
                   fs0 |-> fs, repos0 |-> repos]
       /\ UNCHANGED <<ntags, buildLab, libVars, useCache, upstream>>
       /\ UNCHANGED pollVars

RsFetch ==
  \E out \in (IF last.op = "init" THEN FetchInputs ELSE FetchInputsQuick) :
    LET res == Fetch(repos, local, out, useCache)
    IN /\ local' = res.local
       /\ last' = [op |-> "fetch", in |-> out, raised |-> res.raised,
                   repo |-> res.repo, attempts |-> res.attempts,
                   slept |-> res.slept, visited |-> res.visited,
                   failed |-> res.failed, fs0 |-> fs, repos0 |-> repos]
       /\ UNCHANGED <<ntags, buildLab, libVars, useCache, fs, upstream, repos>>
       /\ UNCHANGED pollVars

RsNext == RsNew \/ RsClone \/ RsFetch

RepoSetSpec == RsInit /\ [][RsNext]_vars

(***************************************************************************)
(* BranchSpecification                                                     *)
(***************************************************************************)
\* an attribute that an element does not carry
NoAttr == "(none)"

\* the <branch> elements of the <branches> section with their per-project
\* children; Z names a project that <repos> does not declare, and the last
\* element carries no "project" attribute
BranchTags ==
  << [name |-> "g1", project |-> "all",
      elems |-> << [tag |-> "A", trigger |-> NoAttr, branch |-> NoAttr],
                   [tag |-> "B", trigger |-> "true", branch |-> NoAttr] >>],
     [name |-> "g2", project |-> "all",
      elems |-> << [tag |-> "A", trigger |-> NoAttr, branch |-> NoAttr] >>],
     [name |-> "g3", project |-> "all",
      elems |-> << [tag |-> "A", trigger |-> "no", branch |-> NoAttr],
                   [tag |-> "Z", trigger |-> NoAttr, branch |-> NoAttr],
                   [tag |-> "B", trigger |-> NoAttr, branch |-> "fork/stable"] >>],
     [name |-> "g4", project |-> NoAttr,
      elems |-> << [tag |-> "A", trigger |-> NoAttr, branch |-> NoAttr] >>] >>

GroupNames == {BranchTags[i].name : i \in DOMAIN BranchTags}

\* commit.hexsha of commit c, and git rev-parse --short of a hexsha: a prefix
HexSha(c) == <<c, c>>

Short(hexsha) == <<hexsha[1]>>

\* branch.sha before it is resolved
NoSha == <<>>

ProjectBranchTriggering(name, branch) ==
  [name |-> name, branch |-> branch, sha |-> NoSha, trigger |-> TRUE]

\* _ProjectBranch(name) with pb.branch = repos.branch(name)
ProjectBranch(name, branch) ==
  [name |-> name, branch |-> branch, sha |-> NoSha, trigger |-> FALSE]

\* the loop "override the defaults", from element k on
RECURSIVE Override(_, _, _)
Override(elems, k, pb) ==
  IF k > Len(elems) THEN pb
  ELSE LET e == elems[k]
       IN IF e.tag \notin DOMAIN pb
          THEN Override(elems, k + 1, pb)
          ELSE Override(elems, k + 1,
                 [pb EXCEPT ![e.tag] =
                    [@ EXCEPT !.trigger = IF e.trigger # NoAttr
                                          THEN e.trigger = "true" ELSE TRUE,
                              !.branch = IF e.branch # NoAttr
                                         THEN e.branch ELSE @]])

\* repo.commit(ref) raises when the clone does not hold the ref
Resolves(loc, b) == loc[b.name][b.branch] # 0

\* branch_tag.attrib["project"] raises KeyError
BranchSpecRaises(btag) == btag.project = NoAttr

BranchSpecInitKeep(btag, known, loc) ==
  LET pb0 == [p \in known |-> ProjectBranch(p, RepoBranch(p))]
  IN Override(btag.elems, 1, pb0)

\* BranchSpecification.__init__: the pins of one branch set
BranchSpecInit(btag, known, loc) ==
  LET pb0 == [p \in known |-> ProjectBranch(p, RepoBranch(p))]
      pb1 == Override(btag.elems, 1, pb0)
      invalid == {p \in known : ~Resolves(loc, pb1[p])}
  IN [p \in known \ invalid |->
        [pb1[p] EXCEPT !.sha = HexSha(loc[p][pb1[p].branch])]]

\* iteritems() of a _project_branches dictionary
Iter(pb, ord) == SelectSeq(ord, LAMBDA p : p \in DOMAIN pb)

\* the value False
False == <<"False">>

\* if trigger_commit:
Truthy(val) == val # False /\ val # <<>>

RECURSIVE NeedsBuildAll(_, _, _, _)
NeedsBuildAll(seq, k, pb, loc) ==
  IF k > Len(seq) THEN [raised |-> "none", val |-> False]
  ELSE LET b == pb[seq[k]]
       IN IF ~Resolves(loc, b)
          THEN [raised |-> "BadName", val |-> False]
          ELSE IF b.sha # HexSha(loc[b.name][b.branch])
               THEN [raised |-> "none",
                     val |-> <<b.name, "=", Short(HexSha(loc[b.name][b.branch]))>>]
               ELSE NeedsBuildAll(seq, k + 1, pb, loc)

\* the loop of needs_build over the pins, from the k-th on
RECURSIVE NeedsBuildFrom(_, _, _, _)
NeedsBuildFrom(seq, k, pb, loc) ==
  IF k > Len(seq) THEN [raised |-> "none", val |-> False]
  ELSE LET b == pb[seq[k]]
       IN IF ~b.trigger
          THEN NeedsBuildFrom(seq, k + 1, pb, loc)
          ELSE IF ~Resolves(loc, b)
               THEN [raised |-> "BadName", val |-> False]
               ELSE IF b.sha # HexSha(loc[b.name][b.branch])
                    THEN [raised |-> "none",
                          val |-> <<b.name, "=", Short(HexSha(loc[b.name][b.branch]))>>]
                    ELSE NeedsBuildFrom(seq, k + 1, pb, loc)

\* BranchSpecification.needs_build
NeedsBuild(pb, loc, ord) == NeedsBuildFrom(Iter(pb, ord), 1, pb, loc)

RECURSIVE RepinFirst(_, _, _, _)
RepinFirst(seq, k, pb, loc) ==
  IF k > Len(seq) \/ k > 1 THEN [raised |-> "none", pb |-> pb]
  ELSE LET b == pb[seq[k]]
       IN IF ~Resolves(loc, b)
          THEN [raised |-> "BadName", pb |-> pb]
          ELSE RepinFirst(seq, k + 1,
                     [pb EXCEPT ![seq[k]].sha = HexSha(loc[b.name][b.branch])], loc)

\* the loop of update_commits over the pins, from the k-th on
RECURSIVE Repin(_, _, _, _)
Repin(seq, k, pb, loc) ==
  IF k > Len(seq) THEN [raised |-> "none", pb |-> pb]
  ELSE LET b == pb[seq[k]]
       IN IF ~Resolves(loc, b)
          THEN [raised |-> "BadName", pb |-> pb]
          ELSE Repin(seq, k + 1,
                     [pb EXCEPT ![seq[k]].sha = HexSha(loc[b.name][b.branch])], loc)

UpdateCommitsStale(pb, known, loc, out, uc, ord) ==
  LET f == Fetch(known, loc, out, uc)
      r == Repin(Iter(pb, ord), 1, pb, loc)
  IN [raised |-> f.raised, pb |-> r.pb, local |-> f.local]

\* BranchSpecification.update_commits
UpdateCommits(pb, known, loc, out, uc, ord) ==
  LET f == Fetch(known, loc, out, uc)
  IN IF f.raised # "none"
     THEN [raised |-> f.raised, pb |-> pb, local |-> f.local]
     ELSE LET r == Repin(Iter(pb, ord), 1, pb, f.local)
          IN [raised |-> r.raised, pb |-> r.pb, local |-> f.local]

(***************************************************************************)
(* RepoStatus: the constructor and poll(), step by step; the remotes move  *)
(* between the steps.                                                      *)
(***************************************************************************)
\* {}
EmptyDict == [g \in {} |-> False]

Put(d, k, v) == [x \in DOMAIN d \cup {k} |-> IF x = k THEN v ELSE d[x]]

KeepRetDict(old) == old

\* ret_dict = {}
NewRetDict(old) == EmptyDict

\* the loop over branches.findall("branch")
BuildBranchesStrict(known, loc) ==
  LET bad(t) == \/ BranchSpecRaises(t)
                \/ \E k \in DOMAIN t.elems : t.elems[k].tag \notin known
                \/ DOMAIN BranchSpecInit(t, known, loc) # known
      ok == SelectSeq(BranchTags, LAMBDA t : ~bad(t))
  IN [i \in DOMAIN ok |->
        [name |-> ok[i].name, pb |-> BranchSpecInit(ok[i], known, loc)]]

\* the loop over the <branch> elements: a branch set whose constructor raises
\* is left out with a warning
BuildBranches(known, loc) ==
  LET ok == SelectSeq(BranchTags, LAMBDA t : ~BranchSpecRaises(t))
  IN [i \in DOMAIN ok |->
        [name |-> ok[i].name, pb |-> BranchSpecInit(ok[i], known, loc)]]

\* the orders in which a dictionary may hand out the projects
Orders ==
  {o \in [DOMAIN Tags -> Projects] : \A i, j \in DOMAIN Tags : o[i] = o[j] => i = j}

\* the trigger-eligible pins whose stored commit is not the ref's commit
Diverged(pb, loc) ==
  {p \in DOMAIN pb : pb[p].trigger /\ pb[p].sha # HexSha(loc[p][pb[p].branch])}

\* a ref pinned by the branch set differs between two states of the clone
PinMoved(pb, loc1, loc2) ==
  \E p \in DOMAIN pb : loc1[p][pb[p].branch] # loc2[p][pb[p].branch]

MovedAfter(bs, loc2) ==
  [g \in GroupNames |->
     moved[g] \/ \E i \in DOMAIN bs : bs[i].name = g /\ PinMoved(bs[i].pb, local, loc2)]

\* the commits on the branches of the remotes
Commits(up) ==
  up["A"]["origin/master"] + up["B"]["origin/master"] + up["B"]["fork/stable"]

Init ==
  /\ ntags \in DOMAIN Tags
  /\ buildLab \in BOOLEAN
  /\ useCache = UseCacheOf(TRUE, buildLab)
  /\ fs \in [Projects -> FsStates]
  /\ \E s \in 0..1 :
       upstream = [p \in Projects |-> [ref \in Refs |->
                     IF <<p, ref>> \notin UpstreamRefs THEN 0
                     ELSE IF RemoteOfRef(ref) = "origin" THEN 1 ELSE s]]
  /\ local = [p \in Projects |-> IF fs[p] = "valid" THEN OldClone(p) ELSE NoRefs]
  /\ repos = {}
  /\ last = [op |-> "none"]
  /\ pc = "start"
  /\ idx = 0
  /\ order \in Orders
  /\ branches = <<>>
  /\ retDict = EmptyDict
  /\ prevRet = EmptyDict
  /\ moved = [g \in GroupNames |-> FALSE]
  /\ pending = [g \in GroupNames |-> {}]
  /\ sig = {}
  /\ NoLib

\* somebody pushes a new commit to a branch of a remote
EnvPush ==
  \E k \in UpstreamRefs :
    /\ Commits(upstream) < MaxCommits
    /\ upstream' = [upstream EXCEPT ![k[1]][k[2]] = @ + 1]
    /\ UNCHANGED <<ntags, buildLab, libVars, useCache, fs, local, repos, last>>
    /\ UNCHANGED pollVars

\* somebody adds the next project to <repos> of the build specification
EnvDeclare ==
  /\ ntags < Len(Tags)
  /\ ntags' = ntags + 1
  /\ UNCHANGED <<buildLab, libVars, useCache, fs, upstream, local, repos, last>>
  /\ UNCHANGED pollVars

\* RepoStatus.__init__: RepoSet(repos_root) and the first fetch()
Construct ==
  /\ pc = "start"
  /\ \E out \in FetchInputsQuick :
       LET known == RepoSetInitRepos(fs)
           loc0 == [p \in Projects |-> IF fs[p] = "valid" THEN local[p] ELSE NoRefs]
           f == Fetch(known, loc0, out, useCache)
       IN /\ fs' = RepoSetInitFs(fs)
          /\ repos' = known
          /\ local' = f.local
          /\ last' = [op |-> "fetch", raised |-> f.raised]
          /\ IF f.raised = "RepoNotCloned"
             THEN pc' = "c_clone" /\ branches' = <<>>
             ELSE pc' = "idle" /\ branches' = BuildBranches(known, f.local)
  /\ UNCHANGED <<ntags, buildLab, libVars, useCache, upstream, idx, order, retDict, prevRet,
                 moved, pending, sig>>

\* except RepoNotCloned: self._repos.clone(), in the constructor and in poll()
CloneStep(at, next, onRaise) ==
  /\ pc = at
  /\ \E cin \in CloneInputsQuick :
       LET c == Clone(repos, fs, local, cin, buildLab, useCache)
       IN /\ fs' = c.fs
          /\ repos' = c.repos
          /\ local' = c.local
          /\ moved' = MovedAfter(branches, c.local)
          /\ IF c.raised # "none"
             THEN /\ pc' = onRaise
                  /\ last' = [op |-> IF at = "p_clone" THEN "poll" ELSE "init",
                              raised |-> c.raised, ret |-> EmptyDict]
             ELSE /\ pc' = next
                  /\ last' = [op |-> "clone", raised |-> "none"]
  /\ prevRet' = IF at = "p_clone" /\ pc' = onRaise THEN EmptyDict ELSE prevRet
  /\ UNCHANGED <<ntags, buildLab, libVars, useCache, upstream, idx, order, branches, retDict,
                 pending, sig>>

ConstructClone == CloneStep("c_clone", "c_refetch", "dead")

\* the constructor's second fetch(), then the branch sets
ConstructRefetch ==
  /\ pc = "c_refetch"
  /\ \E out \in FetchInputsQuick :
       LET f == Fetch(repos, local, out, useCache)
       IN /\ local' = f.local
          /\ IF f.raised # "none"
             THEN /\ pc' = "dead"
                  /\ branches' = <<>>
                  /\ last' = [op |-> "init", raised |-> f.raised, ret |-> EmptyDict]
             ELSE /\ pc' = "idle"
                  /\ branches' = BuildBranches(repos, f.local)
                  /\ last' = [op |-> "fetch", raised |-> "none"]
  /\ UNCHANGED <<ntags, buildLab, libVars, useCache, fs, upstream, repos, idx, order, retDict,
                 prevRet, moved, pending, sig>>

\* poll(): ret_dict = {} and the first fetch()
PollStart ==
  /\ pc = "idle"
  /\ \E out \in FetchInputsQuick :
       LET f == Fetch(repos, local, out, useCache)
       IN /\ local' = f.local
          /\ moved' = MovedAfter(branches, f.local)
          /\ last' = [op |-> "fetch", raised |-> f.raised]
          /\ pc' = IF f.raised = "RepoNotCloned" THEN "p_clone" ELSE "p_branch"
  /\ retDict' = NewRetDict(retDict)
  /\ sig' = {}
  /\ idx' = 1
  /\ UNCHANGED <<ntags, buildLab, libVars, useCache, fs, upstream, repos, order, branches,
                 prevRet, pending>>

PollClone == CloneStep("p_clone", "p_refetch", "idle")

\* poll(): the fetch() after clone(), outside the try
PollRefetch ==
  /\ pc = "p_refetch"
  /\ \E out \in FetchInputsQuick :
       LET f == Fetch(repos, local, out, useCache)
       IN /\ local' = f.local
          /\ moved' = MovedAfter(branches, f.local)
          /\ IF f.raised # "none"
             THEN /\ pc' = "idle"
                  /\ last' = [op |-> "poll", raised |-> f.raised, ret |-> EmptyDict]
                  /\ prevRet' = EmptyDict
             ELSE /\ pc' = "p_branch"
                  /\ last' = [op |-> "fetch", raised |-> "none"]
                  /\ prevRet' = prevRet
  /\ UNCHANGED <<ntags, buildLab, libVars, useCache, fs, upstream, repos, idx, order, branches,
                 retDict, pending, sig>>

PollBranchStoring ==
  /\ pc = "p_branch"
  /\ idx <= Len(branches)
  /\ LET b == branches[idx]
         r == NeedsBuild(b.pb, local, order)
     IN IF r.raised # "none"
        THEN /\ pc' = "idle"
             /\ last' = [op |-> "poll", raised |-> r.raised, ret |-> EmptyDict]
             /\ prevRet' = EmptyDict
             /\ UNCHANGED <<idx, retDict, pending, sig, branches>>
        ELSE /\ last' = [op |-> "needs_build", group |-> b.name, raised |-> "none",
                         val |-> r.val, pending0 |-> pending[b.name]]
             /\ prevRet' = prevRet
             /\ IF Truthy(r.val)
                THEN /\ retDict' = Put(retDict, b.name, r.val)
                     /\ branches' = [branches EXCEPT ![idx].pb[r.val[1]].sha =
                                       HexSha(local[r.val[1]][b.pb[r.val[1]].branch])]
                     /\ sig' = sig \cup {<<b.name, r.val>>}
                     /\ pending' = [pending EXCEPT ![b.name] =
                                      Diverged(b.pb, local) \ {r.val[1]}]
                     /\ pc' = "p_update"
                     /\ idx' = idx
                ELSE /\ pending' = [pending EXCEPT ![b.name] = {}]
                     /\ branches' = branches
                     /\ pc' = "p_branch"
                     /\ idx' = idx + 1
                     /\ UNCHANGED <<retDict, sig>>
  /\ UNCHANGED <<ntags, buildLab, libVars, useCache, fs, upstream, local, repos, order, moved>>

\* poll(): trigger_commit = branch.needs_build() for the next branch set
PollBranch ==
  /\ pc = "p_branch"
  /\ idx <= Len(branches)
  /\ LET b == branches[idx]
         r == NeedsBuild(b.pb, local, order)
     IN IF r.raised # "none"
        THEN /\ pc' = "idle"
             /\ last' = [op |-> "poll", raised |-> r.raised, ret |-> EmptyDict]
             /\ prevRet' = EmptyDict
             /\ UNCHANGED <<idx, retDict, pending, sig>>
        ELSE /\ last' = [op |-> "needs_build", group |-> b.name, raised |-> "none",
                         val |-> r.val, pending0 |-> pending[b.name]]
             /\ prevRet' = prevRet
             /\ IF Truthy(r.val)
                THEN /\ retDict' = Put(retDict, b.name, r.val)
                     /\ sig' = sig \cup {<<b.name, r.val>>}
                     /\ pending' = [pending EXCEPT ![b.name] =
                                      Diverged(b.pb, local) \ {r.val[1]}]
                     /\ pc' = "p_update"
                     /\ idx' = idx
                ELSE /\ pending' = [pending EXCEPT ![b.name] = {}]
                     /\ pc' = "p_branch"
                     /\ idx' = idx + 1
                     /\ UNCHANGED <<retDict, sig>>
  /\ UNCHANGED <<ntags, buildLab, libVars, useCache, fs, upstream, local, repos, order, branches,
                 moved>>

\* a poll() that stores for the reported project the commit that the
\* trigger named
PollUpdateNamed ==
  /\ pc = "p_update"
  /\ \E out \in FetchInputsQuick :
       LET b == branches[idx]
           u == UpdateCommits(b.pb, repos, local, out, useCache, order)
           named == retDict[b.name][1]
       IN /\ local' = u.local
          /\ branches' = [branches EXCEPT ![idx].pb =
                            [u.pb EXCEPT ![named].sha =
                               HexSha(local[named][b.pb[named].branch])]]
          /\ IF u.raised # "none"
             THEN /\ pc' = "idle"
                  /\ last' = [op |-> "poll", raised |-> u.raised, ret |-> EmptyDict]
                  /\ prevRet' = EmptyDict
                  /\ moved' = MovedAfter(branches, u.local)
                  /\ idx' = idx
             ELSE /\ pc' = "p_branch"
                  /\ last' = [op |-> "update_commits", group |-> b.name,
                              raised |-> "none", before |-> local, pins0 |-> b.pb]
                  /\ prevRet' = prevRet
                  /\ moved' = [MovedAfter(branches, u.local) EXCEPT ![b.name] = FALSE]
                  /\ idx' = idx + 1
  /\ UNCHANGED <<ntags, buildLab, libVars, useCache, fs, upstream, repos, order, retDict,
                 pending, sig>>

\* poll(): branch.update_commits() of the branch set that signalled
PollUpdate ==
  /\ pc = "p_update"
  /\ \E out \in FetchInputsQuick :
       LET b == branches[idx]
           u == UpdateCommits(b.pb, repos, local, out, useCache, order)
       IN /\ local' = u.local
          /\ branches' = [branches EXCEPT ![idx].pb = u.pb]
          /\ IF u.raised # "none"
             THEN /\ pc' = "idle"
                  /\ last' = [op |-> "poll", raised |-> u.raised, ret |-> EmptyDict]
                  /\ prevRet' = EmptyDict
                  /\ moved' = MovedAfter(branches, u.local)
                  /\ idx' = idx
             ELSE /\ pc' = "p_branch"
                  /\ last' = [op |-> "update_commits", group |-> b.name,
                              raised |-> "none", before |-> local, pins0 |-> b.pb]
                  /\ prevRet' = prevRet
                  /\ moved' = [MovedAfter(branches, u.local) EXCEPT ![b.name] = FALSE]
                  /\ idx' = idx + 1
  /\ UNCHANGED <<ntags, buildLab, libVars, useCache, fs, upstream, repos, order, retDict,
                 pending, sig>>

\* poll(): return ret_dict
PollReturn ==
  /\ pc = "p_branch"
  /\ idx > Len(branches)
  /\ pc' = "idle"
  /\ last' = [op |-> "poll", raised |-> "none", ret |-> retDict]
  /\ prevRet' = retDict
  /\ UNCHANGED <<ntags, buildLab, libVars, useCache, fs, upstream, local, repos, idx, order,
                 branches, retDict, moved, pending, sig>>

Next ==
  \/ EnvPush
  \/ EnvDeclare
  \/ Construct
  \/ ConstructClone
  \/ ConstructRefetch
  \/ PollStart
  \/ PollClone
  \/ PollRefetch
  \/ PollBranch
  \/ PollUpdate
  \/ PollReturn

Spec == Init /\ [][Next]_vars

(***************************************************************************)
(* Properties of RepoSet.fetch and RepoSet.clone, under RepoSetSpec.       *)
(***************************************************************************)
TagIndex(p) == CHOOSE i \in DOMAIN Tags : Tags[i] = p

Min(a, b) == IF a < b THEN a ELSE b

\* the remotes of the repositories of a set of projects
RemotesIn(ps, uc) ==
  {k \in RemoteKeys : k[1] \in ps /\ \E i \in DOMAIN RemotesOf(k[1], uc) :
                                        RemotesOf(k[1], uc)[i] = k[2]}

\* the projects declared before p in the build specification
DeclaredBefore(p) == {q \in Projects : TagIndex(q) < TagIndex(p)}

\* C7: fetch() raises RepoNotCloned, naming the project, exactly when a
\* declared project has no repository handle; the named project is the first
\* such project, fetch() made no fetch attempt for it, created no handle and
\* touched no directory, and went on to no project declared after it.
C7_FetchRaisesRepoNotCloned ==
  last.op = "fetch" =>
    /\ (Declared \ last.repos0 # {}) <=> (last.raised = "RepoNotCloned")
    /\ last.raised = "RepoNotCloned" =>
         /\ last.repo \in Declared \ last.repos0
         /\ DeclaredBefore(last.repo) \subseteq last.repos0
         /\ \A k \in last.visited : TagIndex(k[1]) < TagIndex(last.repo)
         /\ \A k \in RemoteKeys : k[1] = last.repo => last.attempts[k] = 0
    /\ repos = last.repos0
    /\ fs = last.fs0

\* fetch() raised RepoNotCloned for B after it had fetched A
C7_Witness ==
  /\ last.op = "fetch"
  /\ last.raised = "RepoNotCloned"
  /\ last.repo = "B"
  /\ <<"A", "origin">> \in last.visited

\* the "4 attempts" the comment above the retry loop announces
FetchAttemptsDocumented == 4

\* C8: every remote of every cloned repository gets up to 4 fetch attempts:
\* the attempts stop at the first success, a remote that fails its first 3
\* attempts gets a 4th, and each attempt is followed by a pause of 1 second.
C8_FourFetchAttempts ==
  last.op = "fetch" =>
    \A k \in last.visited :
      /\ last.attempts[k] = Min(last.in[k].fails + 1, FetchAttemptsDocumented)
      /\ last.slept[k] >= (last.attempts[k] - 1) * FetchSleep

\* C9: no failing fetch attempt, whatever it raises, aborts fetch(): the only
\* exception fetch() raises is RepoNotCloned; a remote whose attempts are all
\* used up without success is recorded as failed (and only such a remote);
\* fetch() visits every remote of every repository when all are cloned, and
\* every remote of the repositories declared before the uncloned one else.
C9_FailedFetchNeverAborts ==
  last.op = "fetch" =>
    /\ last.raised \in {"none", "RepoNotCloned"}
    /\ last.raised = "none" => last.visited = RemotesIn(Declared, useCache)
    /\ last.raised = "RepoNotCloned" =>
         last.visited = RemotesIn(DeclaredBefore(last.repo), useCache)
    /\ last.failed =
         {k \in last.visited : last.in[k].fails >= last.attempts[k]}

\* fetch() returned normally although A's origin failed every attempt, one of
\* them by the deadline; the remotes of B were fetched after it
C9_Witness ==
  /\ last.op = "fetch"
  /\ last.raised = "none"
  /\ last.failed = {<<"A", "origin">>}
  /\ \E n \in 1..last.attempts[<<"A", "origin">>] :
       AttemptKind(last.in[<<"A", "origin">>], n) = "TimeoutException"
  /\ {<<"B", "origin">>, <<"B", "fork">>} \subseteq last.visited

\* clone() got to project p: it raised nothing, or raised at p or later
CloneReached(p) ==
  last.raised = "none" \/ TagIndex(p) <= TagIndex(last.repo)

\* the project had no usable directory, so clone() tried to clone it
CloneMissing(p) == last.fs0[p] \in {"absent", "invalid"}

\* C10 as stated: up to 10 attempts whenever clone() runs inside the lab, 1
\* attempt outside it, stopping at the first success.
C10_TenAttemptsInsideLab ==
  last.op = "clone" =>
    \A p \in Projects :
      CloneReached(p) /\ CloneMissing(p) =>
        last.attempts[p] =
          Min(last.in[p] + 1, IF buildLab THEN CloneAttemptsLab ELSE CloneAttemptsDefault)

\* C10 as amended: up to 10 attempts when clone() runs inside the lab with
\* the cache in use, exactly 1 attempt otherwise (outside the lab, or inside
\* it with use_cache=False), stopping at the first success; no attempt for a
\* project whose directory exists.
C10_TenAttemptsInsideLabWithCache ==
  last.op = "clone" =>
    \A p \in Projects :
      /\ CloneReached(p) /\ CloneMissing(p) =>
           last.attempts[p] =
             Min(last.in[p] + 1,
                 IF buildLab /\ useCache THEN CloneAttemptsLab ELSE CloneAttemptsDefault)
      /\ ~CloneMissing(p) => last.attempts[p] = 0

\* inside the lab with the cache, the 10th attempt for A succeeded
C10_Witness ==
  /\ last.op = "clone"
  /\ buildLab /\ useCache
  /\ last.fs0["A"] = "absent"
  /\ last.in["A"] = CloneAttemptsLab - 1
  /\ last.attempts["A"] = CloneAttemptsLab
  /\ fs["A"] = "valid"

\* C11 as stated: a project that carries the do_not_use directory keeps it
\* through every later step (a new RepoSet, clone(), fetch()), and no later
\* clone() makes a clone attempt for it.
C11_SentinelStays ==
  [][\A p \in Projects :
       fs[p] = "dnu" =>
         /\ fs'[p] = "dnu"
         /\ last'.op = "clone" => last'.attempts[p] = 0]_vars

\* C12 as stated: inside the lab, a clone() that used up every attempt for
\* a project without success leaves the project without directory, without
\* do_not_use and without handle, returns normally, and has processed every
\* other declared project.
C12_LabFailureReturns ==
  last.op = "clone" /\ buildLab =>
    \A p \in Declared :
      CloneMissing(p) /\ last.in[p] >= CloneAttempts(buildLab, useCache) =>
        /\ fs[p] = "absent"
        /\ p \notin repos
        /\ last.raised = "none"
        /\ \A q \in Declared \ {p} : fs[q] # "absent" \/ last.attempts[q] > 0

(***************************************************************************)
(* Properties of the branch sets and of RepoStatus.poll, under Spec.       *)
(***************************************************************************)
\* the pins of the branch set named g
PinsOf(g) == LET i == CHOOSE i \in DOMAIN branches : branches[i].name = g
             IN branches[i].pb

\* the commit id of the pinned ref in the clone
Current(b) == HexSha(local[b.name][b.branch])

\* C1: when exactly one pin a of a branch set is trigger-eligible and the
\* commit of its ref differs from the stored one, needs_build() returns
\* "a=<short id of the ref's commit>"; right after update_commits() a
\* needs_build() on the unchanged clone returns False.
C1_TriggerThenQuiet ==
  /\ last.op = "needs_build" =>
       \A a \in DOMAIN PinsOf(last.group) :
         LET pb == PinsOf(last.group)
         IN {p \in DOMAIN pb : pb[p].trigger} = {a} /\ pb[a].sha # Current(pb[a])
              => last.val = <<a, "=", Short(Current(pb[a]))>>
  /\ last.op = "update_commits" =>
       NeedsBuild(PinsOf(last.group), local, order) = [raised |-> "none", val |-> False]

\* g2, where A alone is trigger-eligible, reported A's new commit, and after
\* its update_commits() needs_build() says False
C1_Witness ==
  /\ last.op = "update_commits"
  /\ last.group = "g2"
  /\ "g2" \in DOMAIN retDict
  /\ retDict["g2"] = <<"A", "=", <<2>>>>
  /\ DOMAIN PinsOf("g2") = {"A", "B"}
  /\ NeedsBuild(PinsOf("g2"), local, order).val = False

\* C2: needs_build() returns a value other than False exactly when some pin
\* with trigger=True has a stored commit that differs from the commit of its
\* ref in the clone, and the project it names is such a pin: a pin with
\* trigger=False never causes a trigger.
C2_TriggerIffEligiblePinDiffers ==
  last.op = "needs_build" =>
    LET pb == PinsOf(last.group)
        differs == {p \in DOMAIN pb : pb[p].sha # Current(pb[p])}
    IN /\ (last.val # False) <=> (\E p \in differs : pb[p].trigger)
       /\ last.val # False => last.val[1] \in differs /\ pb[last.val[1]].trigger

\* needs_build() returned False although a pin with trigger=False differs
C2_Witness ==
  /\ last.op = "needs_build"
  /\ last.val = False
  /\ \E p \in DOMAIN PinsOf(last.group) :
       LET b == PinsOf(last.group)[p] IN ~b.trigger /\ b.sha # Current(b)

\* the elements of a branch tag that name project p
ElemsFor(btag, p) == {k \in DOMAIN btag.elems : btag.elems[k].tag = p}

\* the last of them
LastElemFor(btag, p) ==
  btag.elems[CHOOSE k \in ElemsFor(btag, p) : \A j \in ElemsFor(btag, p) : j <= k]

\* C3 as stated: a project the group specification does not override is
\* pinned to the default branch with triggering enabled; trigger is false
\* only for a project whose element has a trigger attribute other than "true".
C3_DefaultPinsTrigger ==
  \A i \in DOMAIN branches : \A p \in DOMAIN branches[i].pb :
    LET b == branches[i].pb[p]
        btag == BranchTags[i]
    IN /\ ElemsFor(btag, p) = {} => b.branch = RepoBranch(p) /\ b.trigger
       /\ ~b.trigger => /\ ElemsFor(btag, p) # {}
                        /\ LastElemFor(btag, p).trigger \notin {NoAttr, "true"}

\* C3 as amended: a project the group specification does not mention is
\* pinned to the default branch with triggering disabled; trigger is true
\* exactly for a project that has an element whose trigger attribute is
\* absent or "true"; the branch is the element's branch attribute if it has
\* one, the default branch otherwise.
C3_DefaultPinsDoNotTrigger ==
  \A i \in DOMAIN branches : \A p \in DOMAIN branches[i].pb :
    LET b == branches[i].pb[p]
        btag == BranchTags[i]
    IN /\ ElemsFor(btag, p) = {} => b.branch = RepoBranch(p) /\ ~b.trigger
       /\ b.trigger <=> /\ ElemsFor(btag, p) # {}
                        /\ LastElemFor(btag, p).trigger \in {NoAttr, "true"}
       /\ ElemsFor(btag, p) # {} =>
            b.branch = IF LastElemFor(btag, p).branch # NoAttr
                       THEN LastElemFor(btag, p).branch ELSE RepoBranch(p)

\* g2 does not mention B: B is pinned to origin/master and does not trigger;
\* g3 pins B to fork/stable and A, with trigger="no", does not trigger
C3_Witness ==
  /\ pc = "idle"
  /\ Len(branches) = 3
  /\ DOMAIN branches[2].pb = {"A", "B"}
  /\ ~branches[2].pb["B"].trigger
  /\ branches[2].pb["B"].branch = "origin/master"
  /\ DOMAIN branches[3].pb = {"A", "B"}
  /\ ~branches[3].pb["A"].trigger
  /\ branches[3].pb["B"].trigger

\* C4: a branch set that the previous poll() reported and whose pinned refs
\* have the same commits in the clone as at its update_commits() does not
\* signal in the next poll(); the mapping poll() returns holds exactly the
\* branch sets whose needs_build() signalled during this call, each with the
\* description returned then.
C4_NotReportedTwice ==
  /\ last.op = "needs_build" /\ last.group \in DOMAIN prevRet /\ ~moved[last.group]
       => last.val = False /\ last.group \notin DOMAIN retDict
  /\ last.op = "poll" /\ last.raised = "none"
       => {<<g, last.ret[g]>> : g \in DOMAIN last.ret} = sig

\* g1 was reported by the previous poll(), its refs did not move, and its
\* needs_build() in this poll() returned False
C4_Witness ==
  /\ last.op = "needs_build"
  /\ last.group = "g1"
  /\ "g1" \in DOMAIN prevRet
  /\ ~moved["g1"]
  /\ last.val = False

\* the first project, in iteration order, of a set
FirstOf(seq, ps) ==
  seq[CHOOSE k \in DOMAIN seq : seq[k] \in ps /\ \A j \in 1..(k - 1) : seq[j] \notin ps]

\* C5 as stated: the diverged projects that a poll() left unreported are
\* reported by the following poll() even if no ref changes in between.
C5_RemainingReportedLater ==
  last.op = "needs_build" /\ ~moved[last.group] /\ last.pending0 # {}
    => last.val # False /\ last.val[1] \in last.pending0

\* C5 as amended: when several trigger-eligible projects of a branch set
\* have diverged, poll() reports only the first of them in iteration order;
\* its update_commits() re-pins every project of the set, so the following
\* poll() reports none of the remaining ones unless a pinned ref changed.
C5_RemainingNotReportedLater ==
  /\ last.op = "needs_build" /\ last.val # False
       => LET pb == PinsOf(last.group)
          IN /\ last.val[1] = FirstOf(Iter(pb, order), Diverged(pb, local))
             /\ last.val = <<last.val[1], "=", Short(Current(pb[last.val[1]]))>>
             /\ pending[last.group] = Diverged(pb, local) \ {last.val[1]}
  /\ last.op = "needs_build" /\ ~moved[last.group] /\ last.pending0 # {}
       => last.val = False

\* g1 reported one of two diverged projects; in the next poll(), no ref
\* having moved, its needs_build() returned False
C5_Witness ==
  /\ last.op = "needs_build"
  /\ last.group = "g1"
  /\ ~moved["g1"]
  /\ last.pending0 # {}
  /\ last.val = False

\* C6: RepoNotCloned does not escape poll(): a poll() that finds a declared
\* project uncloned clones, fetches again and returns its mapping, whether or
\* not the clone attempt succeeded.
C6_RepoNotClonedStaysInPoll ==
  last.op = "poll" => last.raised # "RepoNotCloned"

\* the constructor of RepoStatus has returned
Constructed == pc \in {"idle", "p_clone", "p_refetch", "p_branch", "p_update"}

\* the names of the branch sets that RepoStatus holds
Fleet == {branches[i].name : i \in DOMAIN branches}

\* the refs that the elements of a branch tag name for project p
NamedRefs(btag, p) ==
  IF ElemsFor(btag, p) # {} /\ LastElemFor(btag, p).branch # NoAttr
  THEN LastElemFor(btag, p).branch ELSE RepoBranch(p)

\* C15: constructing a BranchSpecification never fails because a pin's ref
\* does not resolve in the clone: the branch set is built without that pin;
\* every pin of a branch set names a project that the repository set holds,
\* is pinned to the ref its branch tag asks for, and holds the non-empty
\* commit id of a commit of that ref.
C15_UnresolvedPinDropped ==
  Constructed =>
    /\ \A i \in DOMAIN BranchTags :
         ~BranchSpecRaises(BranchTags[i]) => BranchTags[i].name \in Fleet
    /\ \A i \in DOMAIN branches : \A p \in DOMAIN branches[i].pb :
         LET b == branches[i].pb[p]
         IN /\ p \in repos
            /\ b.name = p
            /\ b.branch = NamedRefs(BranchTags[i], p)
            /\ b.sha # NoSha
            /\ \E c \in 1..MaxCommits : b.sha = HexSha(c)

\* g3 was built without its pin of B, whose ref fork/stable the clone of B
\* (pinned by g1) did not hold
C15_Witness ==
  /\ pc = "idle"
  /\ "g3" \in Fleet
  /\ "B" \in DOMAIN PinsOf("g1")
  /\ "B" \notin DOMAIN PinsOf("g3")
  /\ "A" \in DOMAIN PinsOf("g3")

\* a branch tag references a project that the repository set does not hold
RefersUnknown(btag) == \E k \in DOMAIN btag.elems : btag.elems[k].tag \notin Projects

\* C16 as stated: a branch group that references an unresolvable project (or
\* branch) is dropped: once RepoStatus is constructed, no branch group that
\* names a project the repository set cannot hold is in its fleet.
C16_OffendingGroupDropped ==
  Constructed =>
    \A i \in DOMAIN BranchTags :
      RefersUnknown(BranchTags[i]) => BranchTags[i].name \notin Fleet

\* C16 as amended: a branch group that references a project the repository
\* set does not hold, or a ref that does not resolve, stays in the fleet: the
\* element of the unknown project is skipped and the unresolved pin is left
\* out.  Only a branch group whose constructor raises (its tag has no
\* "project" attribute) is dropped; the branch groups after it are built.
C16_OnlyRaisingGroupDropped ==
  Constructed =>
    /\ Fleet = {BranchTags[i].name : i \in {j \in DOMAIN BranchTags :
                                              ~BranchSpecRaises(BranchTags[j])}}
    /\ \A i, j \in DOMAIN branches :
         i < j => \E m, n \in DOMAIN BranchTags :
                    /\ m < n
                    /\ BranchTags[m].name = branches[i].name
                    /\ BranchTags[n].name = branches[j].name
    /\ \A i \in DOMAIN branches :
         DOMAIN branches[i].pb \subseteq Projects

\* the fleet holds g3, which names the unknown project Z and whose ref of B
\* did not resolve, and does not hold g4
C16_Witness ==
  /\ pc = "idle"
  /\ Fleet = {"g1", "g2", "g3"}
  /\ RefersUnknown(BranchTags[3])
  /\ DOMAIN PinsOf("g3") = {"A"}
  /\ "B" \in repos

(***************************************************************************)
(* RepoSet.branch_missing_revisions                                        *)
(***************************************************************************)
\* repo.iter_commits(max_count=1200): the checked-out (tracked) branch
HeadMaxCount == 1200

\* repo.iter_commits(self._branches[project], max_count=8000)
WalkMaxCount == 8000

\* the commits that only the default branch holds, at most
MaxAhead == 2

\* the commits that only the tracked branch holds, at most
MaxOwn == 1

\* the commits that both branches hold, at most
MaxBase == 2

\* n commits of one line of history, newest first
Linear(line, n) == [i \in 1..n |-> <<line, n - i + 1>>]

\* The commit graph h of a clone: h.ahead commits "m" on the default branch
\* since the branch point, h.own commits "t" on the tracked branch since
\* then, h.base commits "b" that both hold.  With h.merged the default branch
\* has merged a side line whose commit <<"m", 0>> the walk reaches after the
\* newest shared commit.
HeadWalk(h) == Linear("t", h.own) \o Linear("b", h.base)

UpstreamWalk(h) ==
  Linear("m", h.ahead)
    \o (IF h.base > 0
        THEN << <<"b", h.base>> >> \o (IF h.merged THEN << <<"m", 0>> >> ELSE <<>>)
               \o Linear("b", h.base - 1)
        ELSE <<>>)

\* iter_commits(rev, max_count=n): the first n commits of the walk
IterCommits(walk, n) == SubSeq(walk, 1, Min(Len(walk), n))

MissingOfInclusive(walk, branch_commits) ==
  LET bc == {branch_commits[i] : i \in DOMAIN branch_commits}
      hits == {k \in DOMAIN walk : HexSha(walk[k]) \in bc}
  IN IF hits = {}
     THEN [found |-> FALSE, tmp_revs |-> [k \in DOMAIN walk |-> HexSha(walk[k])]]
     ELSE LET first == CHOOSE k \in hits : \A j \in hits : k <= j
          IN [found |-> TRUE, tmp_revs |-> [k \in 1..first |-> HexSha(walk[k])]]

\* the loop over the upstream walk: every hexsha that is not in
\* branch_commits goes to tmp_revs, the first one that is in it ends the loop
MissingOf(walk, branch_commits) ==
  LET bc == {branch_commits[i] : i \in DOMAIN branch_commits}
      hits == {k \in DOMAIN walk : HexSha(walk[k]) \in bc}
  IN IF hits = {}
     THEN [found |-> FALSE, tmp_revs |-> [k \in DOMAIN walk |-> HexSha(walk[k])]]
     ELSE LET first == CHOOSE k \in hits : \A j \in hits : k <= j
          IN [found |-> TRUE, tmp_revs |-> [k \in 1..(first - 1) |-> HexSha(walk[k])]]

\* the commits the upstream walk hands out: all of them, or h.yields of them
\* before git rev-list dies and the walk raises GitCommandError
Yielded(h) ==
  LET walk == IterCommits(UpstreamWalk(h), WalkMaxCount)
  IN IF h.yields < 0 THEN walk ELSE SubSeq(walk, 1, Min(h.yields, Len(walk)))

ProjectRevsPartial(h) ==
  IF h.headFails THEN <<>>
  ELSE LET heads == IterCommits(HeadWalk(h), HeadMaxCount)
           branch_commits == [i \in DOMAIN heads |-> HexSha(heads[i])]
       IN MissingOf(Yielded(h), branch_commits).tmp_revs

\* the body of the loop over the projects: what one project adds to revs
ProjectRevs(h) ==
  IF h.headFails THEN <<>>
  ELSE LET heads == IterCommits(HeadWalk(h), HeadMaxCount)
           branch_commits == [i \in DOMAIN heads |-> HexSha(heads[i])]
           m == MissingOf(Yielded(h), branch_commits)
       IN IF m.found THEN m.tmp_revs ELSE <<>>

\* for project in projects: revs = revs + tmp_revs
RECURSIVE MissingFrom(_, _, _, _)
MissingFrom(seq, k, hist, revs) ==
  IF k > Len(seq) THEN revs
  ELSE MissingFrom(seq, k + 1, hist, revs \o ProjectRevs(hist[seq[k]]))

\* RepoSet.branch_missing_revisions()
BranchMissingRevisions(known, ord, hist) ==
  MissingFrom(SelectSeq(ord, LAMBDA p : p \in known), 1, hist, <<>>)

(***************************************************************************)
(* branch_missing_revisions on its own: a RepoSet over clones with every   *)
(* small commit graph, and with graphs at the two traversal limits.        *)
(***************************************************************************)
SmallHistories ==
  {h \in [ahead : 0..MaxAhead, own : 0..MaxOwn, base : 0..MaxBase,
          merged : BOOLEAN, headFails : BOOLEAN, yields : (-1)..MaxAhead] :
     h.merged => h.base > 0}

\* one commit short of a traversal limit, and at it
EdgeHistories ==
  [ahead : {WalkMaxCount - 1, WalkMaxCount}, own : {0}, base : {1},
   merged : {FALSE}, headFails : {FALSE}, yields : {-1}]
  \cup
  [ahead : {1}, own : {HeadMaxCount - 1, HeadMaxCount}, base : {1},
   merged : {FALSE}, headFails : {FALSE}, yields : {-1}]

\* the clones of the second project
OtherHistories ==
  [ahead : 0..1, own : {0}, base : {1}, merged : {FALSE}, headFails : BOOLEAN,
   yields : {-1}]

MsInit ==
  /\ ntags = Len(Tags)
  /\ buildLab = FALSE
  /\ useCache = FALSE
  /\ repos \in SUBSET Projects
  /\ fs = [p \in Projects |-> IF p \in repos THEN "valid" ELSE "absent"]
  /\ upstream = UpstreamFixed
  /\ local = [p \in Projects |-> IF p \in repos THEN OldClone(p) ELSE NoRefs]
  /\ last = [op |-> "init"]
  /\ pc = "none"
  /\ idx = 0
  /\ order \in Orders
  /\ branches = <<>>
  /\ retDict = <<>>
  /\ prevRet = <<>>
  /\ moved = <<>>
  /\ pending = <<>>
  /\ sig = {}
  /\ history \in {[p \in Projects |-> IF p = Tags[1] THEN a ELSE b] :
                    a \in SmallHistories \cup EdgeHistories, b \in OtherHistories}
  /\ revisions = <<>>
  /\ invoke = <<>>
  /\ NoStatus

\* revisions = RepoSet().branch_missing_revisions()
MsBranchMissingRevisions ==
  /\ last.op = "init"
  /\ last' = [op |-> "branch_missing_revisions",
              raised |-> "none",
              revs |-> BranchMissingRevisions(repos, order, history),
              parts |-> [p \in repos |-> BranchMissingRevisions({p}, order, history)]]
  /\ UNCHANGED <<ntags, buildLab, useCache, fs, upstream, local, repos, pc, idx,
                 order, branches, retDict, prevRet, moved, pending, sig, libVars>>

MsNext == MsBranchMissingRevisions

MissingSpec == MsInit /\ [][MsNext]_vars

\* the commits among which the branch point is looked for
TrackedSet(h) ==
  LET heads == HeadWalk(h)
  IN {heads[i] : i \in 1..Min(Len(heads), HeadMaxCount)}

\* the positions of the upstream walk that the loop gets to see
Seen(h) ==
  1..Min(Min(Len(UpstreamWalk(h)), WalkMaxCount),
         IF h.yields < 0 THEN WalkMaxCount ELSE h.yields)

\* the walk of the project meets the tracked branch
Meets(h) ==
  LET walk == UpstreamWalk(h)
      tracked == TrackedSet(h)
  IN ~h.headFails /\ \E k \in Seen(h) : walk[k] \in tracked

\* the concatenation of the projects' contributions, in dictionary order
RECURSIVE Concat(_, _, _)
Concat(seq, k, parts) ==
  IF k > Len(seq) THEN <<>> ELSE parts[seq[k]] \o Concat(seq, k + 1, parts)

\* C13: a project whose upstream walk meets the tracked branch contributes
\* exactly the commits of the walk before the first commit that is in the
\* tracked set, newest first: the branch point and whatever the walk holds
\* after it are left out.  The result is the concatenation of the
\* contributions.
C13_MissingBeforeBranchPoint ==
  last.op = "branch_missing_revisions" =>
    /\ \A p \in repos :
         LET h == history[p]
             walk == UpstreamWalk(h)
             tracked == TrackedSet(h)
             part == last.parts[p]
             listed == {part[i] : i \in DOMAIN part}
         IN Meets(h) =>
              \E f \in Seen(h) :
                /\ walk[f] \in tracked
                /\ Len(part) = f - 1
                /\ \A j \in 1..(f - 1) :
                     part[j] = HexSha(walk[j]) /\ walk[j] \notin tracked
                /\ \A j \in f..Len(walk) : HexSha(walk[j]) \notin listed
    /\ last.revs = Concat(SelectSeq(order, LAMBDA p : p \in repos), 1, last.parts)

\* tracked set {b2, b1}, walk [m1, b2, m0, b1]: the contribution is [m1],
\* although m0, which the walk holds after the branch point, is not tracked
C13_Witness ==
  /\ last.op = "branch_missing_revisions"
  /\ "A" \in repos
  /\ history["A"].ahead = 1 /\ history["A"].base = 2 /\ history["A"].merged
  /\ history["A"].yields = -1 /\ ~history["A"].headFails
  /\ last.parts["A"] = <<HexSha(<<"m", 1>>)>>

\* what a project adds when its walk meets the tracked branch: the commits
\* that only the default branch holds, newest first
OnDefaultOnly(h) ==
  IF Meets(h) THEN [k \in 1..h.ahead |-> HexSha(<<"m", h.ahead - k + 1>>)] ELSE <<>>

\* C14: a project contributes nothing when none of the first 8000 commits
\* of its upstream walk is among the first 1200 commits of its tracked
\* branch, or when enumerating either side fails; the call raises nothing,
\* and every other project contributes what it contributes on its own.
C14_NoBranchPointNoRevisions ==
  last.op = "branch_missing_revisions" =>
    /\ last.raised = "none"
    /\ \A p \in repos : ~Meets(history[p]) => last.parts[p] = <<>>
    /\ last.revs = Concat(SelectSeq(order, LAMBDA p : p \in repos), 1,
                          [p \in repos |-> OnDefaultOnly(history[p])])

\* A's default branch is 8000 commits ahead of the branch point: A
\* contributes nothing, B contributes its one missing commit
C14_Witness ==
  /\ last.op = "branch_missing_revisions"
  /\ repos = {"A", "B"}
  /\ history["A"].ahead = WalkMaxCount
  /\ history["B"].ahead = 1 /\ ~history["B"].headFails
  /\ last.revs = <<HexSha(<<"m", 1>>)>>

(***************************************************************************)
(* RevisionSpecification                                                   *)
(*                                                                         *)
(* A dictionary is a sequence of <<key, value>> pairs with distinct keys,  *)
(* in the order in which the dictionary hands them out.  A text is a       *)
(* sequence of characters and of tokens of the XML notation.               *)
(***************************************************************************)
\* the pins of a revision specification, at most
MaxPins == 2

\* attribute and project names, ascending in Python's string order
SortedNames == <<"Project", "arch", "gtest", "kc-cts", "mesa", "piglit", "shard">>

\* the projects that a revision specification may pin
PinNames == {"gtest", "kc-cts", "mesa", "piglit"}

\* revisions: plain, and with the characters that the XML notation escapes
RevValues == { <<"a">>, <<"b", "&">>, <<"\"">>, <<"&", "a", "m", "p", ";">> }

Keys(d) == {d[i][1] : i \in DOMAIN d}

Get(d, key) == d[CHOOSE i \in DOMAIN d : d[i][1] = key][2]

\* the mapping that a dictionary holds
Mapping(d) == [key \in Keys(d) |-> Get(d, key)]

\* the dictionaries that hold the pairs of d
Orderings(d) ==
  {e \in [DOMAIN d -> {d[i] : i \in DOMAIN d}] :
     \A i, j \in DOMAIN d : e[i] = e[j] => i = j}

\* sorted(d.iteritems(), key=lambda x: x[0])
SortedItems(d) ==
  LET names == SelectSeq(SortedNames, LAMBDA n : n \in Keys(d))
  IN [i \in DOMAIN names |-> <<names[i], Get(d, names[i])>>]

\* the attribute values as the serializer writes them
RECURSIVE EscapeAttrib(_)
EscapeAttrib(text) ==
  IF text = <<>> THEN <<>>
  ELSE (IF Head(text) = "&" THEN <<"&", "a", "m", "p", ";">>
        ELSE IF Head(text) = "\"" THEN <<"&", "q", "u", "o", "t", ";">>
        ELSE <<Head(text)>>) \o EscapeAttrib(Tail(text))

RECURSIVE AttribText(_, _)
AttribText(items, k) ==
  IF k > Len(items) THEN <<>>
  ELSE <<" ", items[k][1], "=", "\"">> \o EscapeAttrib(items[k][2]) \o <<"\"">>
         \o AttribText(items, k + 1)

\* et.tostring(element): the attributes in sorted order, the children inside
RECURSIVE Tostring(_)
RECURSIVE ChildrenText(_, _)
ChildrenText(kids, k) ==
  IF k > Len(kids) THEN <<>> ELSE Tostring(kids[k]) \o ChildrenText(kids, k + 1)

Tostring(elem) ==
  <<"<", elem.tag>> \o AttribText(SortedItems(elem.attrib), 1)
    \o (IF elem.children = <<>> THEN <<" />">>
        ELSE <<">">> \o ChildrenText(elem.children, 1) \o <<"</", elem.tag, ">">>)

\* the parser: an attribute value up to its closing quote
RECURSIVE ParseValue(_, _, _)
ParseValue(d, i, text) ==
  IF i > Len(d) THEN [ok |-> FALSE, text |-> text, next |-> i]
  ELSE IF d[i] = "\"" THEN [ok |-> TRUE, text |-> text, next |-> i + 1]
  ELSE IF d[i] = "&"
       THEN IF i + 4 <= Len(d) /\ SubSeq(d, i + 1, i + 4) = <<"a", "m", "p", ";">>
            THEN ParseValue(d, i + 5, Append(text, "&"))
            ELSE IF i + 5 <= Len(d)
                    /\ SubSeq(d, i + 1, i + 5) = <<"q", "u", "o", "t", ";">>
                 THEN ParseValue(d, i + 6, Append(text, "\""))
                 ELSE [ok |-> FALSE, text |-> text, next |-> i]
       ELSE ParseValue(d, i + 1, Append(text, d[i]))

\* the attributes of a start tag
RECURSIVE ParseAttrs(_, _, _)
ParseAttrs(d, i, items) ==
  IF i + 3 <= Len(d) /\ d[i] = " " /\ d[i + 2] = "=" /\ d[i + 3] = "\""
  THEN LET v == ParseValue(d, i + 4, <<>>)
       IN IF ~v.ok THEN [ok |-> FALSE, items |-> items, next |-> i]
          ELSE ParseAttrs(d, v.next, Append(items, <<d[i + 1], v.text>>))
  ELSE [ok |-> TRUE, items |-> items, next |-> i]

NoElement == [tag |-> "", attrib |-> <<>>, children |-> <<>>]

\* an element with its children
RECURSIVE ParseElement(_, _)
RECURSIVE ParseChildren(_, _, _)
ParseChildren(d, i, kids) ==
  IF i <= Len(d) /\ d[i] = "<"
  THEN LET e == ParseElement(d, i)
       IN IF ~e.ok THEN [ok |-> FALSE, kids |-> kids, next |-> i]
          ELSE ParseChildren(d, e.next, Append(kids, e.elem))
  ELSE [ok |-> TRUE, kids |-> kids, next |-> i]

ParseElement(d, i) ==
  IF i + 1 > Len(d) \/ d[i] # "<" THEN [ok |-> FALSE, elem |-> NoElement, next |-> i]
  ELSE LET a == ParseAttrs(d, i + 2, <<>>)
       IN IF ~a.ok \/ a.next > Len(d)
          THEN [ok |-> FALSE, elem |-> NoElement, next |-> i]
          ELSE IF d[a.next] = " />"
               THEN [ok |-> TRUE, next |-> a.next + 1,
                     elem |-> [tag |-> d[i + 1], attrib |-> a.items, children |-> <<>>]]
               ELSE IF d[a.next] = ">"
                    THEN LET c == ParseChildren(d, a.next + 1, <<>>)
                         IN IF c.ok /\ c.next + 2 <= Len(d)
                               /\ SubSeq(d, c.next, c.next + 2) = <<"</", d[i + 1], ">">>
                            THEN [ok |-> TRUE, next |-> c.next + 3,
                                  elem |-> [tag |-> d[i + 1], attrib |-> a.items,
                                            children |-> c.kids]]
                            ELSE [ok |-> FALSE, elem |-> NoElement, next |-> i]
                    ELSE [ok |-> FALSE, elem |-> NoElement, next |-> i]

\* et.fromstring(text), et.ElementTree(file=filename).getroot()
FromString(d) ==
  LET r == ParseElement(d, 1)
  IN IF r.ok /\ r.next = Len(d) + 1 THEN [raised |-> "none", elem |-> r.elem]
     ELSE [raised |-> "ParseError", elem |-> NoElement]

\* RevisionSpecification.to_elementtree: elem.set(n, h) for the sorted pins
ToElementTree(revs) ==
  [tag |-> "RevSpec", attrib |-> SortedItems(revs), children |-> <<>>]

\* RevisionSpecification.__str__
Str(revs) == Tostring(ToElementTree(revs))

\* elem.find('RevSpec'): the first child with that tag, or None
Find(elem, tag) ==
  LET hits == {k \in DOMAIN elem.children : elem.children[k].tag = tag}
  IN IF hits = {} THEN [found |-> FALSE, elem |-> NoElement]
     ELSE [found |-> TRUE,
           elem |-> elem.children[CHOOSE k \in hits : \A j \in hits : k <= j]]

FromXmlFileChildOnly(d) ==
  LET r == FromString(d)
  IN IF r.raised # "none" THEN [raised |-> r.raised, attrib |-> <<>>]
     ELSE IF ~Find(r.elem, "RevSpec").found
          THEN [raised |-> "AssertionError", attrib |-> <<>>]
          ELSE [raised |-> "none", attrib |-> Find(r.elem, "RevSpec").elem.attrib]

\* RevisionSpecification.from_xml_file on a file that holds text d: the
\* attributes of the RevSpec element
FromXmlFile(d) ==
  LET r == FromString(d)
  IN IF r.raised # "none" THEN [raised |-> r.raised, attrib |-> <<>>]
     ELSE IF r.elem.tag = "RevSpec" THEN [raised |-> "none", attrib |-> r.elem.attrib]
     ELSE IF ~Find(r.elem, "RevSpec").found
          THEN [raised |-> "AssertionError", attrib |-> <<>>]
          ELSE [raised |-> "none", attrib |-> Find(r.elem, "RevSpec").elem.attrib]

SkippedButGtest ==
  {"mesa_jenkins", "prerelease", "gmock", "apitrace", "sixonix",
   "spirvheaders", "spirvtools", "kc-cts"}

\* the projects that to_cmd_line_param passes over
Skipped ==
  {"mesa_jenkins", "prerelease", "gmock", "gtest", "apitrace", "sixonix",
   "spirvheaders", "spirvtools", "kc-cts"}

\* the loop of to_cmd_line_param over iteritems(), from the k-th pair on
RECURSIVE CmdLineRevs(_, _, _)
CmdLineRevs(d, k, revs) ==
  IF k > Len(d) THEN revs
  ELSE IF d[k][1] \in Skipped THEN CmdLineRevs(d, k + 1, revs)
       ELSE CmdLineRevs(d, k + 1, Append(revs, <<d[k][1], "=">> \o d[k][2]))

\* sep.join(parts)
RECURSIVE Join(_, _, _)
Join(sep, parts, k) ==
  IF k > Len(parts) THEN <<>>
  ELSE (IF k > 1 THEN <<sep>> ELSE <<>>) \o parts[k] \o Join(sep, parts, k + 1)

\* RevisionSpecification.to_cmd_line_param
ToCmdLineParam(d) == Join(" ", CmdLineRevs(d, 1, <<>>), 1)

\* RevisionSpecification.revision
Revision(d, project) ==
  IF project \in Keys(d) THEN [raised |-> "none", val |-> Get(d, project)]
  ELSE [raised |-> "KeyError", val |-> <<>>]

(***************************************************************************)
(* ProjectInvoke                                                           *)
(***************************************************************************)
\* Options.to_elementtree: an Options element that carries the option values
OptionsToElementTree(options) ==
  [tag |-> "Options",
   attrib |-> << <<"arch", options.arch>>, <<"shard", options.shard>> >>,
   children |-> <<>>]

ProjectInvokeStrNoRevSpec(iv) ==
  Tostring([tag |-> "ProjectInvoke",
            attrib |-> << <<"Project", iv.project>> >>,
            children |-> << OptionsToElementTree(iv.options) >>])

\* ProjectInvoke.__str__: the revision specification goes in as the element
\* that et.fromstring reads from its text
ProjectInvokeStr(iv) ==
  Tostring([tag |-> "ProjectInvoke",
            attrib |-> << <<"Project", iv.project>> >>,
            children |-> << FromString(Str(iv.revision_spec)).elem,
                            OptionsToElementTree(iv.options) >>])

\* hashlib.md5(text).hexdigest(): a digest that tells any two texts apart
Md5(text) == <<"md5", text>>

\* ProjectInvoke.hash
Hash(iv, salt) == Md5(salt \o ProjectInvokeStr(iv))

(***************************************************************************)
(* A RevisionSpecification on its own: it is written to a file, read back, *)
(* rendered as command line parameters and asked for revisions.            *)
(***************************************************************************)
\* every dictionary of at most MaxPins pins
Dicts ==
  UNION {{d \in [1..n -> PinNames \X RevValues] :
            \A i, j \in 1..n : d[i][1] = d[j][1] => i = j} : n \in 0..MaxPins}

\* the invocation whose text holds a revision specification as a child
InvokeOf(revs) ==
  [project |-> <<"mesa">>, options |-> [arch |-> <<"m64">>, shard |-> <<"0">>],
   revision_spec |-> revs]

NoRepoSet ==
  /\ ntags = Len(Tags)
  /\ buildLab = FALSE
  /\ useCache = FALSE
  /\ fs = [p \in Projects |-> "absent"]
  /\ upstream = UpstreamFixed
  /\ local = [p \in Projects |-> NoRefs]
  /\ repos = {}

RvInit ==
  /\ NoRepoSet
  /\ NoPoller
  /\ history = <<>>
  /\ invoke = <<>>
  /\ NoStatus
  /\ revisions \in Dicts
  /\ last = [op |-> "new"]

\* open(filename, "w").write(str(spec)), or the text of a ProjectInvoke
RvStr ==
  /\ \E wrapped \in BOOLEAN :
       last' = [op |-> "str", wrapped |-> wrapped,
                doc |-> IF wrapped THEN ProjectInvokeStr(InvokeOf(revisions))
                        ELSE Str(revisions)]
  /\ UNCHANGED <<rsVars, pollVars, history, revisions, invoke, statusVars>>

\* spec = RevisionSpecification.from_xml_file(filename)
RvFromXmlFile ==
  /\ last.op = "str"
  /\ LET r == FromXmlFile(last.doc)
     IN /\ revisions' \in Orderings(r.attrib)
        /\ last' = [op |-> "from_xml_file", raised |-> r.raised,
                    wrapped |-> last.wrapped, written |-> revisions]
  /\ UNCHANGED <<rsVars, pollVars, history, invoke, statusVars>>

\* spec.to_cmd_line_param()
RvToCmdLineParam ==
  /\ last' = [op |-> "to_cmd_line_param", out |-> ToCmdLineParam(revisions),
              before |-> revisions]
  /\ UNCHANGED <<rsVars, pollVars, history, revisions, invoke, statusVars>>

\* spec.revision(project)
RvRevision ==
  /\ \E project \in PinNames :
       LET r == Revision(revisions, project)
       IN last' = [op |-> "revision", project |-> project, raised |-> r.raised,
                   val |-> r.val, after |-> last.op]
  /\ UNCHANGED <<rsVars, pollVars, history, revisions, invoke, statusVars>>

RvNext == RvStr \/ RvFromXmlFile \/ RvToCmdLineParam \/ RvRevision

RevSpecSpec == RvInit /\ [][RvNext]_vars

\* C17: the revision specification read from a file that holds the text of
\* a revision specification m, as the root element or as a child named
\* RevSpec, pins the projects of m to the revisions of m; reading raises
\* nothing.
C17_XmlRoundTrip ==
  last.op = "from_xml_file" =>
    /\ last.raised = "none"
    /\ Mapping(revisions) = Mapping(last.written)

\* a specification with a quote and an ampersand in its revisions came back
\* from the text of a ProjectInvoke, in another dictionary order
C17_Witness ==
  /\ last.op = "from_xml_file"
  /\ last.wrapped
  /\ Len(revisions) = 2
  /\ revisions # last.written
  /\ Mapping(revisions) = Mapping(last.written)
  /\ \E i \in DOMAIN revisions : revisions[i][2] = <<"\"">>
  /\ \E i \in DOMAIN revisions : revisions[i][2] = <<"b", "&">>

\* the parts of a text between the separators
RECURSIVE Split(_, _, _, _)
Split(text, sep, k, part) ==
  IF k > Len(text) THEN <<part>>
  ELSE IF text[k] = sep THEN <<part>> \o Split(text, sep, k + 1, <<>>)
       ELSE Split(text, sep, k + 1, Append(part, text[k]))

\* the tokens of a command line parameter string
Tokens(out) == IF out = <<>> THEN <<>> ELSE Split(out, " ", 1, <<>>)

\* the exclusion list of the command line rendering
CmdLineExclusions ==
  {"mesa_jenkins", "prerelease", "gmock", "gtest", "apitrace", "sixonix",
   "spirvheaders", "spirvtools", "kc-cts"}

\* C18: to_cmd_line_param() returns one token "project=revision" for each
\* pinned project outside the exclusion list and no other token; it leaves
\* the pins as they are, and revision(project) returns the revision of
\* every pinned project, the excluded ones too.
C18_CmdLineSkipsExcluded ==
  /\ last.op = "to_cmd_line_param" =>
       LET toks == Tokens(last.out)
       IN /\ \A i \in DOMAIN toks : Len(toks[i]) >= 2 /\ toks[i][2] = "="
          /\ \A i, j \in DOMAIN toks : toks[i][1] = toks[j][1] => i = j
          /\ {<<toks[i][1], SubSeq(toks[i], 3, Len(toks[i]))>> : i \in DOMAIN toks}
               = {<<n, Get(revisions, n)>> : n \in Keys(revisions) \ CmdLineExclusions}
          /\ revisions = last.before
  /\ last.op = "revision" /\ last.project \in Keys(revisions) =>
       last.raised = "none" /\ last.val = Get(revisions, last.project)

\* after to_cmd_line_param() of a specification that pins mesa and gtest,
\* revision("gtest") returned gtest's revision
C18_Witness ==
  /\ last.op = "revision"
  /\ last.after = "to_cmd_line_param"
  /\ Keys(revisions) = {"mesa", "gtest"}
  /\ last.project = "gtest"
  /\ last.val = Get(revisions, "gtest")
  /\ ToCmdLineParam(revisions) = <<"mesa", "=">> \o Get(revisions, "mesa")

\* the position of a name in the ascending order of names
Rank(name) == CHOOSE i \in DOMAIN SortedNames : SortedNames[i] = name

\* C19: the tokens of the string that to_cmd_line_param() returns are in
\* ascending order of project name, so that the string is the same for
\* every dictionary that holds the same pins.
C19_CmdLineSorted ==
  last.op = "to_cmd_line_param" =>
    /\ \A i, j \in DOMAIN Tokens(last.out) :
         i < j => Rank(Tokens(last.out)[i][1]) < Rank(Tokens(last.out)[j][1])
    /\ \A e \in Orderings(revisions) : ToCmdLineParam(e) = last.out

(***************************************************************************)
(* A ProjectInvoke on its own: hash(salt) of invocations over every small  *)
(* revision specification.                                                 *)
(***************************************************************************)
Salts == { <<"s">>, <<"s", "<">> }

InvokeProjects == { <<"mesa">>, <<"piglit">> }

InvokeOptions == [arch : { <<"m64">>, <<"m32">> }, shard : { <<"0">> }]

IvInit ==
  /\ NoRepoSet
  /\ NoPoller
  /\ history = <<>>
  /\ revisions = <<>>
  /\ NoStatus
  /\ invoke \in [project : InvokeProjects, options : InvokeOptions,
                 revision_spec : Dicts]
  /\ last = [op |-> "new"]

\* invoke.hash(salt)
IvHash ==
  /\ \E salt \in Salts :
       last' = [op |-> "hash", salt |-> salt, digest |-> Hash(invoke, salt),
                again |-> last.op = "hash" /\ last.salt = salt,
                previous |-> IF last.op = "hash" THEN last.digest ELSE <<>>]
  /\ UNCHANGED <<rsVars, pollVars, history, revisions, invoke, statusVars>>

IvNext == IvHash

InvokeSpec == IvInit /\ [][IvNext]_vars

\* the invocations that differ from iv in the revision of exactly one pin
OnePinChanged(iv) ==
  UNION {{[iv EXCEPT !.revision_spec[i] = <<iv.revision_spec[i][1], v>>] :
            v \in RevValues \ {iv.revision_spec[i][2]}} :
         i \in DOMAIN iv.revision_spec}

\* C20: hash(salt) is a function of salt, project, option values and pin
\* mapping: calling it again with the same salt gives the same fingerprint,
\* an invocation that holds the same pins in another dictionary order has
\* the same fingerprint, and one that differs in the revision of one pin has
\* another.
C20_FingerprintOfPins ==
  last.op = "hash" =>
    /\ last.again => last.digest = last.previous
    /\ \A e \in Orderings(invoke.revision_spec) :
         Hash([invoke EXCEPT !.revision_spec = e], last.salt) = last.digest
    /\ \A other \in OnePinChanged(invoke) : Hash(other, last.salt) # last.digest

\* the second hash("s") of an invocation with two pins gave the fingerprint
\* of the first
C20_Witness ==
  /\ last.op = "hash"
  /\ last.again
  /\ last.digest = last.previous
  /\ Len(invoke.revision_spec) = 2
  /\ \E i \in DOMAIN invoke.revision_spec : invoke.revision_spec[i][2] = <<"b", "&">>

\* ------------------------------------------------------------------
\* needs_build() under Spec

\* C30: needs_build() is a pure check: the step that runs it fetches
\* nothing, so the clones keep their refs, and it leaves the stored commit
\* id, the branch ref and the trigger flag of every pin of every branch set
\* as they were, whether it returns a description or False.
C30_NeedsBuildPure ==
  [][PollBranch => /\ branches' = branches
                   /\ local' = local
                   /\ fs' = fs
                   /\ repos' = repos]_vars

\* needs_build() has just reported a pin and that pin still stores the old
\* commit id, not the one its ref names in the clone
C30_Witness ==
  /\ pc = "p_update"
  /\ last.op = "needs_build"
  /\ Truthy(last.val)
  /\ PinsOf(last.group)[last.val[1]].sha # Current(PinsOf(last.group)[last.val[1]])

\* ------------------------------------------------------------------
\* BranchSpecification.checkout

\* "while not success and attempt < 10"
CheckoutAttempts == 10

\* time.sleep(10) after an attempt that raised
CheckoutSleep == 10

\* the most reset+checkout attempts on one repository that raise
MaxCheckoutFails == 11

\* the while loop on one repository from the given attempt count on, while
\* success is False, when the first `fails` attempts raise: the attempts
\* made, whether one succeeded, the seconds slept and how often
\* "rm -f .git/index.lock" ran
RECURSIVE CheckoutLoop(_, _)
CheckoutLoop(fails, attempt) ==
  IF ~(attempt < CheckoutAttempts)
  THEN [attempts |-> attempt, success |-> FALSE, slept |-> 0, unlocked |-> 0]
  ELSE IF attempt + 1 > fails
       THEN [attempts |-> attempt + 1, success |-> TRUE, slept |-> 0, unlocked |-> 0]
       ELSE LET r == CheckoutLoop(fails, attempt + 1)
            IN [r EXCEPT !.slept = @ + CheckoutSleep, !.unlocked = @ + 1]

\* a checkout() that lets the failure of the last attempt escape
CheckoutAbort(pb, ord, head, fails) ==
  LET names == Iter(pb, ord)
      res == [i \in DOMAIN names |-> CheckoutLoop(fails[names[i]], 0)]
      bad == {i \in DOMAIN names : ~res[i].success}
      stop == IF bad = {} THEN Len(names)
              ELSE CHOOSE i \in bad : \A j \in bad : i <= j
  IN [raised |-> IF bad = {} THEN "none" ELSE "GitCommandError",
      tried |-> [i \in 1..stop |-> [name |-> names[i]] @@ res[i]],
      head |-> [p \in DOMAIN head |->
                  IF \E i \in 1..stop : names[i] = p /\ res[i].success
                  THEN pb[p].branch ELSE head[p]]]

\* checkout(): for every pin, in the dictionary's order, reset --hard and
\* checkout -f of the pinned ref until an attempt succeeds or 10 were made;
\* head is the ref each repository has checked out
Checkout(pb, ord, head, fails) ==
  LET names == Iter(pb, ord)
      res == [i \in DOMAIN names |-> CheckoutLoop(fails[names[i]], 0)]
  IN [raised |-> "none",
      tried |-> [i \in DOMAIN names |-> [name |-> names[i]] @@ res[i]],
      head |-> [p \in DOMAIN head |->
                  IF \E i \in DOMAIN names : names[i] = p /\ res[i].success
                  THEN pb[p].branch ELSE head[p]]]

\* the branch sets of a build specification over fetched clones, none of
\* them checked out yet
CkInit ==
  /\ ntags = Len(Tags)
  /\ buildLab = FALSE
  /\ useCache = FALSE
  /\ fs = [p \in Projects |-> "valid"]
  /\ upstream = UpstreamFixed
  /\ local = UpstreamFixed
  /\ repos = Projects
  /\ pc = "none"
  /\ idx = 0
  /\ order \in Orders
  /\ branches = BuildBranches(Projects, local)
  /\ retDict = <<>>
  /\ prevRet = <<>>
  /\ moved = <<>>
  /\ pending = <<>>
  /\ sig = {}
  /\ NoLib
  /\ last = [op |-> "new", head |-> [p \in Projects |-> RepoBranch(p)]]

\* branches[i].checkout() while the first fails[p] attempts on p raise
CkCheckout ==
  /\ \E i \in DOMAIN branches, fails \in [Projects -> 0..MaxCheckoutFails] :
       LET r == Checkout(branches[i].pb, order, last.head, fails)
       IN last' = [op |-> "checkout", group |-> branches[i].name, fails |-> fails,
                   raised |-> r.raised, tried |-> r.tried, before |-> last.head,
                   head |-> r.head]
  /\ UNCHANGED <<rsVars, pollVars, libVars>>

CheckoutSpec == CkInit /\ [][CkCheckout]_vars

\* C29: checkout() makes at most 10 reset+checkout attempts for each pinned
\* project and stops at the first that succeeds; every failed attempt is
\* followed by the pause and the removal of the index.lock file; it always
\* returns: after 10 failed attempts on one project it goes on to the next
\* pinned project and raises nothing.
C29_CheckoutBounded ==
  last.op = "checkout" =>
    /\ last.raised = "none"
    /\ {last.tried[i].name : i \in DOMAIN last.tried} = DOMAIN PinsOf(last.group)
    /\ \A i \in DOMAIN last.tried :
         LET t == last.tried[i]
             f == last.fails[t.name]
         IN /\ t.attempts <= CheckoutAttempts
            /\ t.attempts = Min(f + 1, CheckoutAttempts)
            /\ t.success = (f < CheckoutAttempts)
            /\ t.unlocked = Min(f, CheckoutAttempts)
            /\ t.slept = CheckoutSleep * t.unlocked
            /\ last.head[t.name] =
                 IF t.success THEN PinsOf(last.group)[t.name].branch
                 ELSE last.before[t.name]

\* the first pinned project failed 10 times and checkout() went on to the
\* second, which succeeded at its third attempt
C29_Witness ==
  /\ last.op = "checkout"
  /\ last.raised = "none"
  /\ Len(last.tried) = 2
  /\ last.tried[1].attempts = 10 /\ ~last.tried[1].success
  /\ last.tried[1].unlocked = 10
  /\ last.tried[2].attempts = 3 /\ last.tried[2].success
  /\ last.tried[2].unlocked = 2
  /\ last.head[last.tried[2].name] = "fork/stable"

\* ------------------------------------------------------------------
\* ProjectInvoke: the status record of a build.  A path is the sequence of
\* its characters, "/" among them; a record is a function from keys to values.

\* o.shard != 0: the shard is a string, and a string never equals an integer
NeInt(str, n) == TRUE

\* an info_file() that tells the builds of two revisions apart
InfoFileOfPins(iv) ==
  LET o == iv.options
      shard_str == IF NeInt(o.shard, 0) THEN <<"_">> \o o.shard ELSE <<>>
  IN Join("/", <<o.result_path, iv.project, o.arch, o.config, o.hardware,
                 Str(iv.revision_spec),
                 <<"_build_info">> \o shard_str \o <<".txt">> >>, 1)

\* info_file()
InfoFile(iv) ==
  LET o == iv.options
      shard_str == IF NeInt(o.shard, 0) THEN <<"_">> \o o.shard ELSE <<>>
  IN Join("/", <<o.result_path, iv.project, o.arch, o.config, o.hardware,
                 <<"_build_info">> \o shard_str \o <<".txt">> >>, 1)

\* to_short_string(): the items, joined by " "
ToShortString(iv) ==
  LET items == <<iv.project, iv.options.arch, iv.options.config, iv.options.hardware>>
  IN Join(" ", IF iv.options.shard # <<"0">> THEN Append(items, iv.options.shard)
               ELSE items, 1)

\* os.path.dirname: the text up to the last "/", without its trailing "/"
\* unless it consists of "/" only
Dirname(path) ==
  LET slashes == {i \in DOMAIN path : path[i] = "/"}
      i == IF slashes = {} THEN 0 ELSE CHOOSE k \in slashes : \A j \in slashes : j <= k
      others == {k \in 1..i : path[k] # "/"}
  IN IF others = {} THEN SubSeq(path, 1, i)
     ELSE SubSeq(path, 1, CHOOSE k \in others : \A j \in others : j <= k)

\* info_dir.split("/")[:5]
MountParts == 5

\* the keys of a record in the order in which the dictionary hands them out
InfoKeys == << <<"status">>, <<"time">> >>

\* the string literal of json.dumps for a str: " and \ are escaped
RECURSIVE JsonEscape(_)
JsonEscape(str) ==
  IF str = <<>> THEN <<>>
  ELSE (IF Head(str) \in {"\"", "\\"} THEN <<"\\", Head(str)>> ELSE <<Head(str)>>)
       \o JsonEscape(Tail(str))

\* a json.dumps that writes the characters of a str as they are
JsonDumpsRaw(info_dict) ==
  LET keys == SelectSeq(InfoKeys, LAMBDA k : k \in DOMAIN info_dict)
      quoted(str) == <<"\"">> \o str \o <<"\"">>
      items == [i \in DOMAIN keys |->
                  quoted(keys[i]) \o <<":", " ">> \o quoted(info_dict[keys[i]])]
  IN <<"{">> \o Join(",", [i \in DOMAIN items |->
                             (IF i > 1 THEN <<" ">> ELSE <<>>) \o items[i]], 1)
            \o <<"}">>

\* json.dumps(info_dict) of a dictionary from str to str
JsonDumps(info_dict) ==
  LET keys == SelectSeq(InfoKeys, LAMBDA k : k \in DOMAIN info_dict)
      quoted(str) == <<"\"">> \o JsonEscape(str) \o <<"\"">>
      items == [i \in DOMAIN keys |->
                  quoted(keys[i]) \o <<":", " ">> \o quoted(info_dict[keys[i]])]
  IN <<"{">> \o Join(",", [i \in DOMAIN items |->
                             (IF i > 1 THEN <<" ">> ELSE <<>>) \o items[i]], 1)
            \o <<"}">>

\* json.loads raises ValueError
JsonFails == [ok |-> FALSE, val |-> EmptyDict, next |-> 0]

\* the characters of the string literal entered before text[k], up to its
\* closing quote
RECURSIVE JsonScan(_, _, _)
JsonScan(text, k, acc) ==
  IF k > Len(text) THEN JsonFails
  ELSE IF text[k] = "\"" THEN [ok |-> TRUE, val |-> acc, next |-> k + 1]
  ELSE IF text[k] = "\\"
       THEN IF k + 1 > Len(text) THEN JsonFails
            ELSE JsonScan(text, k + 2, Append(acc, text[k + 1]))
       ELSE JsonScan(text, k + 1, Append(acc, text[k]))

\* the items of an object from text[k] on, added to d: JsonLiteral is the
\* string literal that starts at text[i], More goes on after the key and
\* the value of an item
RECURSIVE JsonItems(_, _, _)
JsonItems(text, k, d) ==
  LET JsonLiteral(t, i) ==
        IF i > Len(t) \/ t[i] # "\"" THEN JsonFails ELSE JsonScan(t, i + 1, <<>>)
      More(key, v) ==
        IF ~v.ok \/ v.next > Len(text) THEN JsonFails
        ELSE IF text[v.next] = "}"
             THEN IF v.next = Len(text)
                  THEN [ok |-> TRUE, val |-> Put(d, key.val, v.val), next |-> v.next + 1]
                  ELSE JsonFails
        ELSE IF text[v.next] = "," /\ v.next + 1 <= Len(text)
             THEN IF text[v.next + 1] = " "
                  THEN JsonItems(text, v.next + 2, Put(d, key.val, v.val))
                  ELSE JsonFails
        ELSE JsonFails
      Value(key) ==
        IF ~key.ok \/ key.next + 1 > Len(text) THEN JsonFails
        ELSE IF text[key.next] # ":" \/ text[key.next + 1] # " " THEN JsonFails
        ELSE More(key, JsonLiteral(text, key.next + 2))
  IN Value(JsonLiteral(text, k))

\* json.loads(info_text) of the text of an object from str to str
JsonLoads(text) ==
  IF Len(text) < 2 THEN JsonFails
  ELSE IF text[1] # "{" THEN JsonFails
  ELSE IF text[2] = "}"
       THEN IF Len(text) = 2 THEN [ok |-> TRUE, val |-> EmptyDict, next |-> 3]
            ELSE JsonFails
  ELSE JsonItems(text, 2, EmptyDict)

\* "while attempt_number < 5"
ReadAttempts == 5

\* time.sleep(5) after a read that raised
ReadSleep == 5

\* the most read attempts of one _read_info() that raise although the text
\* of the file parses
MaxReadFails == 6

\* the value None
None == <<"None">>

\* the share answers: the file is seen at both existence checks and no read
\* raises
Healthy == [sees1 |-> TRUE, sees2 |-> TRUE, errs |-> 0]

\* the retry loop of _read_info() from the given attempt number on, over a
\* file whose text json.loads takes to `loaded`, when the first errs
\* attempts raise in open or read
RECURSIVE ReadLoop(_, _, _)
ReadLoop(loaded, errs, attempt_number) ==
  IF ~(attempt_number < ReadAttempts)
  THEN [val |-> EmptyDict, attempts |-> attempt_number, slept |-> 0, parsed |-> FALSE]
  ELSE IF attempt_number + 1 > errs /\ loaded.ok
       THEN [val |-> loaded.val, attempts |-> attempt_number + 1, slept |-> 0,
             parsed |-> TRUE]
       ELSE LET rest == ReadLoop(loaded, errs, attempt_number + 1)
            IN [rest EXCEPT !.slept = @ + ReadSleep]

\* a _read_info() that believes the first existence check
ReadInfoNoRecheck(sh, iv, env) ==
  LET info_file == InfoFile(iv)
      there == info_file \in DOMAIN sh.files
      first == there /\ env.sees1
  IN IF ~first
     THEN [val |-> EmptyDict, checks |-> 1, attempts |-> 0, slept |-> 0,
           parsed |-> FALSE, raised |-> "none"]
     ELSE [checks |-> 1, raised |-> "none"]
          @@ ReadLoop(JsonLoads(sh.files[info_file]), env.errs, 0)

\* _read_info(): env tells what each of the two os.path.exists sees of an
\* existing file and how many read attempts raise
ReadInfo(sh, iv, env) ==
  LET info_file == InfoFile(iv)
      there == info_file \in DOMAIN sh.files
      first == there /\ env.sees1
      second == there /\ env.sees2
  IN IF ~first /\ ~second
     THEN [val |-> EmptyDict, checks |-> 2, attempts |-> 0, slept |-> 0,
           parsed |-> FALSE, raised |-> "none"]
     ELSE [checks |-> IF first THEN 1 ELSE 2, raised |-> "none"]
          @@ ReadLoop(JsonLoads(sh.files[info_file]), env.errs, 0)

\* "while not os.path.exists(info_dir) and tries < 20"
WriteTries == 20

\* time.sleep(10) before a further attempt to make the directory
WriteSleep == 10

\* the most os.makedirs calls of one _write_info() that raise
MaxMkdirFails == 21

\* the most os.chdir(mount_dir) calls of one _write_info() that raise
MaxMountFails == 2

\* a retry that stays where the change into the mount point left it
ChdirBackSkipped(savedir, now) == now

\* os.chdir(savedir) after the attempt to enter the mount point
ChdirBack(savedir, now) == savedir

\* the loop that makes info_dir, from the given number of tries on: the
\* first env.mkfails os.makedirs raise and leave no directory, the first
\* env.mountFails os.chdir(mount_dir) raise
RECURSIVE InfoDirLoop(_, _, _, _, _)
InfoDirLoop(exists, tries, mount_dir, env, st) ==
  IF ~(~exists /\ tries < WriteTries)
  THEN [exists |-> exists, tries |-> tries] @@ st
  ELSE LET t == tries + 1
           savedir == st.cwd
           entered == st.chdirs + 1 > env.mountFails
           st1 == IF t > 1
                  THEN [cwd |-> ChdirBack(savedir, IF entered THEN mount_dir ELSE st.cwd),
                        slept |-> st.slept + WriteSleep,
                        chdirs |-> st.chdirs + 1,
                        entries |-> st.entries + (IF entered THEN 1 ELSE 0)]
                  ELSE st
       IN InfoDirLoop(t > env.mkfails, t, mount_dir, env, st1)

\* _write_info(info_dict) by a process whose working directory is wd:
\* mount_dir is "/".join(info_dir.split("/")[:5]), and the open(info_file,
\* "w") of the last line raises when the directory is still missing
WriteInfo(sh, wd, iv, info_dict, env) ==
  LET info_file == InfoFile(iv)
      info_dir == Dirname(info_file)
      parts == Split(info_dir, "/", 1, <<>>)
      mount_dir == Join("/", SubSeq(parts, 1, Min(MountParts, Len(parts))), 1)
      Written(d) ==
        IF d.exists
        THEN [share |-> [dirs |-> sh.dirs \cup {info_dir},
                         files |-> Put(sh.files, info_file, JsonDumps(info_dict))],
              raised |-> "none"] @@ d
        ELSE [share |-> sh, raised |-> "IOError"] @@ d
  IN Written(InfoDirLoop(info_dir \in sh.dirs, 0, mount_dir, env,
                         [cwd |-> wd, slept |-> 0, chdirs |-> 0, entries |-> 0]))

\* "for _ in range(0,10)"
GetInfoReads == 10

\* time.sleep(1) after a read without the key
GetInfoSleep == 1

\* the most reads of one get_info() during which the share lags
MaxLag == 11

\* the loop of get_info() after n reads, when the share lags during the
\* first `lag` reads of the call and shows the file at neither check; Body
\* is the body of the loop once the read of this turn has returned info
RECURSIVE GetInfoLoop(_, _, _, _, _, _)
GetInfoLoop(sh, iv, key, block, lag, n) ==
  LET Body(info) ==
        IF key \in DOMAIN info THEN [val |-> info[key], reads |-> n + 1, slept |-> 0]
        ELSE IF ~block THEN [val |-> None, reads |-> n + 1, slept |-> 0]
        ELSE [GetInfoLoop(sh, iv, key, block, lag, n + 1)
                EXCEPT !.slept = @ + GetInfoSleep]
  IN IF ~(n < GetInfoReads) THEN [val |-> None, reads |-> n, slept |-> 0]
     ELSE Body(ReadInfo(sh, iv, [Healthy EXCEPT !.sees1 = n + 1 > lag,
                                                !.sees2 = n + 1 > lag]).val)

\* a get_info() that never waits
GetInfoOnce(sh, iv, key, block, lag) == GetInfoLoop(sh, iv, key, FALSE, lag, 0)

\* get_info(key, block)
GetInfo(sh, iv, key, block, lag) == GetInfoLoop(sh, iv, key, block, lag, 0)

\* set_info(key, value) after info_dict = self._read_info() returned r
SetInfoRead(sh, wd, iv, key, value, r, wenv) ==
  [read |-> r, written |-> Put(r.val, key, value)]
  @@ WriteInfo(sh, wd, iv, Put(r.val, key, value), wenv)

\* set_info(key, value)
SetInfo(sh, wd, iv, key, value, renv, wenv) ==
  SetInfoRead(sh, wd, iv, key, value, ReadInfo(sh, iv, renv), wenv)

\* ------------------------------------------------------------------
\* StatusSpec: one process keeps the status records of two builds that
\* differ in their revision pins only, on a share that may lag or fail.

\* options.shard
Shards == { <<"0">>, <<"1">> }

\* the options of the builds: result_path is /mnt/jenkins/results/mesa_master
StatusOptions(shard) ==
  [result_path |-> <<"/", "mnt", "/", "jenkins", "/", "results", "/", "mesa_master">>,
   arch |-> <<"m64">>, config |-> <<"release">>,
   hardware |-> <<"builder">>, shard |-> shard]

\* the revision pins of the two builds
StatusPins == << << <<"mesa", <<"a">> >> >>, << <<"mesa", <<"b", "&">> >> >> >>

\* the working directory of the process
HomeDir == <<"/", "home", "/", "jenkins">>

\* the values that the builds store under a key
InfoValues(key) ==
  IF key = <<"status">> THEN { <<"ok">>, <<"\"", "x", "\\">> } ELSE { <<"17">> }

KeySet == {InfoKeys[i] : i \in DOMAIN InfoKeys}

\* a share without the result directories
EmptyShare == [dirs |-> {}, files |-> EmptyDict]

\* a share where a writer was cut off inside the record of iv
TornShare(iv) ==
  LET text == JsonDumps(Put(EmptyDict, InfoKeys[1], <<"ok">>))
  IN [dirs |-> {Dirname(InfoFile(iv))},
      files |-> Put(EmptyDict, InfoFile(iv), SubSeq(text, 1, Len(text) - 2))]

\* what the share can do to the reads of an existing file
ReadEnvsFor(sh, iv) ==
  IF InfoFile(iv) \notin DOMAIN sh.files THEN {Healthy}
  ELSE {env \in [sees1 : BOOLEAN, sees2 : BOOLEAN, errs : 0..MaxReadFails] :
          /\ env.sees1 => env.sees2
          /\ ~env.sees1 => env.errs = 0}

\* what the share can do to the making of a missing directory
WriteEnvsFor(sh, iv) ==
  IF Dirname(InfoFile(iv)) \in sh.dirs THEN {[mkfails |-> 0, mountFails |-> 0]}
  ELSE [mkfails : 0..MaxMkdirFails, mountFails : 0..MaxMountFails]

StInit ==
  /\ NoRepoSet
  /\ NoPoller
  /\ history = <<>>
  /\ revisions = <<>>
  /\ invoke = <<>>
  /\ \E shard \in Shards :
       jobs = [j \in 1..2 |->
                 [invoke |-> [project |-> <<"mesa">>, options |-> StatusOptions(shard),
                              revision_spec |-> StatusPins[j]],
                  pc |-> "idle"]]
  /\ cwd = HomeDir
  /\ share \in IF jobs[1].invoke.options.shard = <<"0">>
                THEN {EmptyShare, TornShare(jobs[1].invoke)}
                ELSE {EmptyShare}
  /\ last = [op |-> "new"]

\* jobs[j].invoke.set_info(key, value)
StSetInfo ==
  /\ \E j \in DOMAIN jobs, key \in KeySet :
       \E value \in InfoValues(key),
          renv \in ReadEnvsFor(share, jobs[j].invoke),
          wenv \in WriteEnvsFor(share, jobs[j].invoke) :
         \E r \in {SetInfo(share, cwd, jobs[j].invoke, key, value, renv, wenv)} :
            /\ share' = r.share
            /\ cwd' = r.cwd
            /\ last' = [op |-> "set_info", job |-> j, key |-> key, value |-> value,
                        path |-> InfoFile(jobs[j].invoke),
                        renv |-> renv, wenv |-> wenv, before |-> share, cwd0 |-> cwd,
                        read |-> r.read, raised |-> r.raised, tries |-> r.tries,
                        slept |-> r.slept, chdirs |-> r.chdirs, entries |-> r.entries]
  /\ UNCHANGED <<rsVars, pollVars, history, revisions, invoke, jobs>>

\* jobs[j].invoke.get_info(key, block) while the share lags behind an
\* existing file during the first lag reads
StGetInfo ==
  /\ \E j \in DOMAIN jobs, key \in KeySet, block \in BOOLEAN :
       \E lag \in IF InfoFile(jobs[j].invoke) \notin DOMAIN share.files THEN {0}
                  ELSE IF block THEN 0..MaxLag ELSE 0..1 :
         \E r \in {GetInfo(share, jobs[j].invoke, key, block, lag)} :
            last' = [op |-> "get_info", job |-> j, key |-> key, block |-> block,
                        path |-> InfoFile(jobs[j].invoke),
                        lag |-> lag, val |-> r.val, reads |-> r.reads, slept |-> r.slept]
  /\ UNCHANGED <<rsVars, pollVars, history, revisions, invoke, statusVars>>

StatusSpec == StInit /\ [][StSetInfo \/ StGetInfo]_vars

\* the invocation behind the last call
LastInvoke == jobs[last.job].invoke

\* two invocations agree in what info_file() is documented to depend on
SameCoordinates(a, b) ==
  /\ a.project = b.project
  /\ a.options.result_path = b.options.result_path
  /\ a.options.arch = b.options.arch
  /\ a.options.config = b.options.config
  /\ a.options.hardware = b.options.hardware
  /\ a.options.shard = b.options.shard

\* revision specifications without a pin or with one pin
OtherPins == {<<>>} \cup {<< <<n, v>> >> : n \in PinNames, v \in RevValues}

\* C21: the path of the status record is a function of result root,
\* project, arch, config, hardware and shard only: an invocation with other
\* revision pins has the same path, and two builds that agree in these
\* read and write the same record, so what one stored the other reads.
C21_PathIgnoresPins ==
  last.op \in {"set_info", "get_info"} =>
    /\ \A e \in OtherPins : InfoFile([LastInvoke EXCEPT !.revision_spec = e]) = last.path
    /\ \A j \in DOMAIN jobs :
         SameCoordinates(jobs[j].invoke, LastInvoke) =>
           /\ InfoFile(jobs[j].invoke) = last.path
           /\ last.op = "set_info" /\ last.raised = "none" =>
                ReadInfo(share, jobs[j].invoke, Healthy).val
                  = Put(last.read.val, last.key, last.value)
           /\ last.op = "get_info" /\ last.lag = 0 =>
                GetInfo(share, jobs[j].invoke, last.key, last.block, 0).val = last.val

\* the first build stored a status and the second build, which has other
\* revision pins, reads it
C21_Witness ==
  /\ last.op = "set_info"
  /\ last.job = 1
  /\ last.raised = "none"
  /\ jobs[2].invoke.revision_spec # jobs[1].invoke.revision_spec
  /\ GetInfo(share, jobs[2].invoke, last.key, FALSE, 0).val = last.value

\* the file name of a path
Basename(path) ==
  LET parts == Split(path, "/", 1, <<>>) IN parts[Len(parts)]

\* to_short_string() treats the build as unsharded
Unsharded(iv) ==
  ToShortString(iv) = Join(" ", <<iv.project, iv.options.arch, iv.options.config,
                                  iv.options.hardware>>, 1)

\* C22: the file name of the status record is "_build_info.txt" for an
\* unsharded build, the one whose shard to_short_string() leaves out, and
\* "_build_info_<shard>.txt" for a sharded build.
C22_ShardSuffix ==
  last.op \in {"set_info", "get_info"} =>
    Basename(last.path) =
      IF Unsharded(LastInvoke) THEN <<"_build_info", ".txt">>
      ELSE <<"_build_info", "_">> \o LastInvoke.options.shard \o <<".txt">>

\* what a read of the record returns while the share does not lag
Stored(iv) == ReadInfo(share, iv, Healthy).val

\* C23: get_info(key, block=False) reads once and returns the value, or
\* None when that read lacks key; get_info(key, block=True) reads until a
\* read holds key, sleeping one second after each miss, returns that value,
\* and returns None after the tenth miss.
C23_GetInfoReads ==
  last.op = "get_info" =>
    LET rec == Stored(LastInvoke)
        has == last.key \in DOMAIN rec
    IN /\ last.reads <= GetInfoReads
       /\ ~last.block =>
            /\ last.reads = 1
            /\ last.slept = 0
            /\ last.val = IF has /\ last.lag = 0 THEN rec[last.key] ELSE None
       /\ last.block /\ has /\ last.lag < GetInfoReads =>
            /\ last.reads = last.lag + 1
            /\ last.slept = GetInfoSleep * last.lag
            /\ last.val = rec[last.key]
       /\ last.block /\ ~(has /\ last.lag < GetInfoReads) =>
            /\ last.reads = GetInfoReads
            /\ last.slept = GetInfoSleep * GetInfoReads
            /\ last.val = None

\* a blocking get_info() missed the key three times and returned the value
\* that its fourth read held
C23_Witness ==
  /\ last.op = "get_info"
  /\ last.block
  /\ last.lag = 3
  /\ last.reads = 4
  /\ last.val = <<"\"", "x", "\\">>

\* C24: when set_info(key, value) has returned, a get_info(key) that
\* follows at once on a share that answers returns value, blocking or not,
\* also when neither the file nor its directory existed before.
C24_SetThenGet ==
  last.op = "set_info" /\ last.raised = "none" =>
    \A block \in BOOLEAN :
      GetInfo(share, LastInvoke, last.key, block, 0).val = last.value

\* set_info() made the directory and the file and stored a value with a
\* quote and a backslash in it
C24_Witness ==
  /\ last.op = "set_info"
  /\ last.raised = "none"
  /\ last.before = EmptyShare
  /\ last.value = <<"\"", "x", "\\">>
  /\ GetInfo(share, LastInvoke, last.key, TRUE, 0).val = last.value

\* C25: _read_info() never raises.  Of a file that is absent, or seen at
\* neither existence check, it returns the empty record after the second
\* check and without reading.  Of a file that it sees it returns the
\* parsed record at the first attempt that reads and parses, after a pause
\* of 5 seconds for every attempt before; when 5 attempts failed it returns
\* the empty record.
C25_ReadInfoTolerant ==
  last.op = "set_info" =>
    LET r == last.read
        files == last.before.files
        seen == /\ last.path \in DOMAIN files
                /\ last.renv.sees1 \/ last.renv.sees2
    IN /\ r.raised = "none"
       /\ ~seen => r.checks = 2 /\ r.attempts = 0 /\ r.val = EmptyDict /\ r.slept = 0
       /\ seen =>
            LET loaded == JsonLoads(files[last.path])
            IN /\ r.checks = IF last.renv.sees1 THEN 1 ELSE 2
               /\ r.attempts <= ReadAttempts
               /\ IF loaded.ok /\ last.renv.errs < ReadAttempts
                  THEN /\ r.attempts = last.renv.errs + 1
                       /\ r.val = loaded.val
                       /\ r.slept = ReadSleep * last.renv.errs
                  ELSE /\ r.attempts = ReadAttempts
                       /\ r.val = EmptyDict
                       /\ r.slept = ReadSleep * ReadAttempts

\* the file held a record that was cut off: 5 attempts, then the empty
\* record
C25_Witness ==
  /\ last.op = "set_info"
  /\ last.path \in DOMAIN last.before.files
  /\ ~JsonLoads(last.before.files[last.path]).ok
  /\ last.renv.errs = 0
  /\ last.read.attempts = 5
  /\ last.read.val = EmptyDict
  /\ last.read.raised = "none"

\* C27: set_info() raises nothing, also when every attempt of
\* _write_info() to make the directory failed.
C27_SetInfoNeverRaises ==
  last.op = "set_info" => last.raised = "none"

\* C28: the working directory after _write_info() is the one before it,
\* however many attempts to make the directory failed and whether or not
\* the changes into the mount point succeeded; such a change is made
\* before every attempt but the first.
C28_CwdRestored ==
  last.op = "set_info" =>
    /\ cwd = last.cwd0
    /\ last.chdirs = IF last.tries > 1 THEN last.tries - 1 ELSE 0
    /\ last.entries = IF last.chdirs > last.wenv.mountFails
                      THEN last.chdirs - last.wenv.mountFails ELSE 0

\* the directory was made at the fourth attempt; of the three changes into
\* the mount point the first raised and two went through
C28_Witness ==
  /\ last.op = "set_info"
  /\ last.tries = 4
  /\ last.chdirs = 3
  /\ last.entries = 2
  /\ last.raised = "none"
  /\ cwd = HomeDir

\* ------------------------------------------------------------------
\* RaceSpec: two processes keep the status record of the same build
\* coordinates; each set_info() is a read of the record and, later, the
\* write of the whole record.  The share answers every call.

RcInit ==
  /\ NoRepoSet
  /\ NoPoller
  /\ history = <<>>
  /\ revisions = <<>>
  /\ invoke = <<>>
  /\ \E shard \in Shards :
       jobs = [j \in 1..2 |->
                 [invoke |-> [project |-> <<"mesa">>, options |-> StatusOptions(shard),
                              revision_spec |-> StatusPins[j]],
                  pc |-> "idle", key |-> <<>>, value |-> <<>>, read |-> <<>>]]
  /\ cwd = HomeDir
  /\ share = EmptyShare
  /\ last = [op |-> "new"]

\* set_info(key, value) of process j: info_dict = self._read_info()
RcRead ==
  /\ \E j \in DOMAIN jobs, key \in KeySet :
       \E value \in InfoValues(key) :
         /\ jobs[j].pc = "idle"
         /\ jobs' = [jobs EXCEPT ![j] =
                       [@ EXCEPT !.pc = "write", !.key = key, !.value = value,
                                 !.read = ReadInfo(share, jobs[j].invoke, Healthy)]]
         /\ last' = [op |-> "read_info", job |-> j, key |-> key, value |-> value]
  /\ UNCHANGED <<rsVars, pollVars, history, revisions, invoke, share, cwd>>

\* a set_info() that reads the record again when it writes
RcWriteFresh ==
  /\ \E j \in DOMAIN jobs :
       /\ jobs[j].pc = "write"
       /\ \E w \in {SetInfo(share, cwd, jobs[j].invoke, jobs[j].key, jobs[j].value,
                            Healthy, [mkfails |-> 0, mountFails |-> 0])} :
            /\ share' = w.share
            /\ cwd' = w.cwd
            /\ last' = [op |-> "set_info", job |-> j, key |-> jobs[j].key,
                        value |-> jobs[j].value, read |-> jobs[j].read.val,
                        before |-> share, raised |-> w.raised]
       /\ jobs' = [jobs EXCEPT ![j] =
                     [@ EXCEPT !.pc = "idle", !.key = <<>>, !.value = <<>>,
                               !.read = <<>>]]
  /\ UNCHANGED <<rsVars, pollVars, history, revisions, invoke>>

\* set_info(key, value) of process j: info_dict[key] = value and
\* self._write_info(info_dict), with the record as it was read
RcWrite ==
  /\ \E j \in DOMAIN jobs :
       /\ jobs[j].pc = "write"
       /\ \E w \in {SetInfoRead(share, cwd, jobs[j].invoke, jobs[j].key, jobs[j].value,
                                jobs[j].read, [mkfails |-> 0, mountFails |-> 0])} :
            /\ share' = w.share
            /\ cwd' = w.cwd
            /\ last' = [op |-> "set_info", job |-> j, key |-> jobs[j].key,
                        value |-> jobs[j].value, read |-> jobs[j].read.val,
                        before |-> share, raised |-> w.raised]
       /\ jobs' = [jobs EXCEPT ![j] =
                     [@ EXCEPT !.pc = "idle", !.key = <<>>, !.value = <<>>,
                               !.read = <<>>]]
  /\ UNCHANGED <<rsVars, pollVars, history, revisions, invoke>>

RaceSpec == RcInit /\ [][RcRead \/ RcWrite]_vars

\* C26: set_info() is not atomic.  The record after the write of a
\* set_info() is the record that this set_info() read, with its own key set
\* to its value: the key of the process that wrote last is in the record,
\* and what another process wrote between the read and the write is not.
C26_LastWriteWins ==
  last.op = "set_info" =>
    /\ last.raised = "none"
    /\ Stored(LastInvoke) = Put(last.read, last.key, last.value)
    /\ last.key \in DOMAIN Stored(LastInvoke)
    /\ Stored(LastInvoke)[last.key] = last.value

\* both processes read the empty record, then both wrote: the record holds
\* the key of the second writer and has lost the key of the first
C26_Witness ==
  /\ last.op = "set_info"
  /\ last.read = EmptyDict
  /\ \E k \in KeySet :
       /\ k # last.key
       /\ k \in DOMAIN ReadInfo(last.before, LastInvoke, Healthy).val
       /\ k \notin DOMAIN Stored(LastInvoke)
  /\ DOMAIN Stored(LastInvoke) = {last.key}

\* ------------------------------------------------------------------
\* fetch() and RepoNotCloned under RepoSetSpec

\* C31 as stated: when fetch() raises RepoNotCloned, that call has fetched
\* no remote of any repository.
C31_NothingFetchedBeforeRaise ==
  last.op = "fetch" /\ last.raised = "RepoNotCloned" =>
    /\ last.visited = {}
    /\ \A k \in RemoteKeys : last.attempts[k] = 0

\* C31: when fetch() raises RepoNotCloned, that call has made no fetch
\* attempt for the uncloned project or for a project declared after it; the
\* remotes of every project declared before it have been fetched by then,
\* each with at least one attempt.
C31_EarlierReposFetched ==
  last.op = "fetch" /\ last.raised = "RepoNotCloned" =>
    /\ last.visited = RemotesIn(DeclaredBefore(last.repo), useCache)
    /\ \A k \in RemoteKeys :
         IF k \in last.visited THEN last.attempts[k] >= 1 ELSE last.attempts[k] = 0

\* fetch() raised RepoNotCloned for B after its fetch of A's origin had
\* moved A's branch in the clone to the commit of the remote
C31_Witness ==
  /\ last.op = "fetch"
  /\ last.raised = "RepoNotCloned"
  /\ last.repo = "B"
  /\ last.attempts[<<"A", "origin">>] = 1
  /\ local["A"]["origin/master"] = upstream["A"]["origin/master"]
  /\ local["A"]["origin/master"] # OldClone("A")["origin/master"]

\* ------------------------------------------------------------------
\* the trigger description and the stored pins under Spec

\* the project and the commit id that the trigger of branch set g names
NamedProject(g) == retDict[g][1]
NamedId(g) == retDict[g][3]

\* C32 as stated: after poll() reported "P=<id>" for a branch set and ran
\* its update_commits(), the stored commit of P is the commit that <id>
\* names, and no other pin of the branch set stores a commit that it did
\* not store before.
C32_StoredIsNamed ==
  last.op = "update_commits" =>
    LET g == last.group
    IN /\ Short(PinsOf(g)[NamedProject(g)].sha) = NamedId(g)
       /\ \A p \in DOMAIN PinsOf(g) \ {NamedProject(g)} :
            PinsOf(g)[p].sha = last.pins0[p].sha

\* C32: after poll() reported "P=<id>" for a branch set, its
\* update_commits() fetches again and stores for every pin the commit that
\* the pinned ref names in the clone after that fetch; the stored commit of
\* P is the one that <id> names exactly when the second fetch did not move
\* the ref of P.
C32_StoredIsRefetched ==
  last.op = "update_commits" =>
    LET g == last.group
        P == NamedProject(g)
        ref == PinsOf(g)[P].branch
    IN /\ \A p \in DOMAIN PinsOf(g) : PinsOf(g)[p].sha = Current(PinsOf(g)[p])
       /\ NamedId(g) = Short(HexSha(last.before[P][ref]))
       /\ (Short(PinsOf(g)[P].sha) = NamedId(g)) <=> (local[P][ref] = last.before[P][ref])

\* the remote branch of the reported project advanced between the two
\* fetches: the stored commit is newer than the one that the trigger names
C32_Witness ==
  /\ last.op = "update_commits"
  /\ Short(PinsOf(last.group)[NamedProject(last.group)].sha) # NamedId(last.group)
  /\ local[NamedProject(last.group)][PinsOf(last.group)[NamedProject(last.group)].branch]
       > last.before[NamedProject(last.group)]
                    [PinsOf(last.group)[NamedProject(last.group)].branch]

\* C33: an exception raised by needs_build() or update_commits() of one
\* branch set does not stop poll(): a poll() in which a branch set has
\* signalled returns normally, after it has evaluated every branch set, and
\* its mapping holds every trigger recorded in it.
C33_PollSurvivesBranchSet ==
  last.op = "poll" /\ sig # {} =>
    /\ last.raised = "none"
    /\ idx > Len(branches)
    /\ \A t \in sig : t[1] \in DOMAIN last.ret /\ last.ret[t[1]] = t[2]

\* C34: set_info(key, value) changes only key: every other key the status
\* record held before the call is still in the record afterwards with the
\* value it had, whatever the reads inside set_info saw.
C34_SetInfoKeepsOtherKeys ==
  last.op = "set_info" /\ last.raised = "none" =>
    LET old == ReadInfo(last.before, LastInvoke, Healthy).val
        new == Stored(LastInvoke)
    IN  \A k \in DOMAIN old \ {last.key} :
          k \in DOMAIN new /\ new[k] = old[k]

====
